---- MODULE Spec2Model ----
(***************************************************************************)
(* Model of the SOAR engine of netmonitor (src/soar.py): playbook         *)
(* matching, cooldowns, the approval gate, the worker thread(s) that run  *)
(* playbook steps, and the block_ip hourly cap.                            *)
(*                                                                         *)
(* PlaybookExecution objects live on a heap (execution) indexed by their   *)
(* execution id; the containers of the engine (pending_approvals,          *)
(* execution_queue, executions) and the worker threads hold ids.           *)
(* uuid4()[:8] is modelled as a fresh id (the next free index).            *)
(*                                                                         *)
(* approve_execution, reject_execution, process_alert, start and stop are  *)
(* atomic; the worker is split at every point where another thread can     *)
(* observe it: loop test, queue get, each playbook step, and the test and  *)
(* the append of _action_block_ip.  The write-only time stamps             *)
(* (completed_at, the timestamp of a step result) are left out.            *)
(*                                                                         *)
(* The risk scorer (src/risk_scoring.py) is a second object with its own   *)
(* state and its own specifications (SpecRisk, SpecTrend); the engine does *)
(* not move there, and the scorer does not move in Spec.  Scores are       *)
(* Python floats; the model computes them as exact fractions <<n, d>> in   *)
(* lowest terms.  The fields of a profile that are only written (identity  *)
(* hints, last_seen, alerts_24h, alerts_7d) and the time stamps of the     *)
(* score samples are left out.                                             *)
(***************************************************************************)
EXTENDS Integers, Sequences, FiniteSets, TLC

\* ------------------------------------------------------------------ bounds
MaxExec == 2
MaxTicks == 1
MaxThreads == 2
MaxBlocksCfg == 1
MaxCallers == 2
MaxParserPackets == 3
MaxParserTicks == 2
MaxBurst == 25
MaxEtaPackets == 3
MaxDecodes == 1

\* ------------------------------------------------------- program constants
ExecutionsMaxLen == 1000
BlockWindow == 3600
CriticalThreatCooldown == 300
\* Playbook.max_executions_per_hour when a playbook does not set it
DefaultMaxExecutionsPerHour == 10

\* time.time() at construction: an epoch time, far above every cooldown
StartTime == 100000
\* amounts of time that pass between two operations of the engine
TickSteps == {1, BlockWindow}

\* ------------------------------------------------------------- enumerations
PENDING == "pending"
RUNNING == "running"
COMPLETED == "completed"
FAILED == "failed"
SKIPPED == "skipped"
PlaybookStatus == {PENDING, RUNNING, COMPLETED, FAILED, SKIPPED}

ResponseAction ==
  {"log", "alert", "notify", "enrich", "quarantine", "block_ip",
   "block_domain", "rate_limit", "capture", "script"}

\* PlaybookStep: parameters is a dict ("dict") or, in a broken configuration,
\* None ("None"); every _action_* starts with params.get(...) and then raises
\* AttributeError before touching any state.
PlaybookStep(a, p, f) == [action |-> a, parameters |-> p, on_failure |-> f]

\* self.playbooks in dict order: the built-in playbook that blocks, and three
\* registered by configuration (abort policies, wildcard triggers, steps
\* with parameters=None, an action without handler, an hourly maximum of
\* one execution, a disabled playbook).
PlaybookOrder == <<"critical_threat", "contain", "broken", "muted">>

playbooks ==
  [n \in {PlaybookOrder[k] : k \in 1..Len(PlaybookOrder)} |->
    CASE n = "critical_threat" ->
           [name |-> n,
            trigger_types |-> {"C2_COMMUNICATION", "RANSOMWARE_DETECTED", "DCSYNC_ATTACK",
                               "HIGH_RISK_ATTACK_CHAIN", "MALICIOUS_JA3_FINGERPRINT"},
            trigger_severities |-> {"CRITICAL"},
            steps |-> << PlaybookStep("enrich", "dict", "continue"),
                         PlaybookStep("capture", "dict", "continue"),
                         PlaybookStep("notify", "dict", "continue"),
                         PlaybookStep("block_ip", "dict", "continue") >>,
            enabled |-> TRUE,
            cooldown |-> CriticalThreatCooldown,
            max_executions_per_hour |-> DefaultMaxExecutionsPerHour]
      [] n = "contain" ->
           [name |-> n,
            trigger_types |-> {"*"},
            trigger_severities |-> {"HIGH", "CRITICAL"},
            steps |-> << PlaybookStep("block_ip", "dict", "abort"),
                         PlaybookStep("notify", "None", "continue"),
                         PlaybookStep("quarantine", "dict", "continue") >>,
            enabled |-> TRUE,
            cooldown |-> CriticalThreatCooldown,
            max_executions_per_hour |-> 1]
      [] n = "broken" ->
           [name |-> n,
            trigger_types |-> {"BRUTE_FORCE"},
            trigger_severities |-> {"*"},
            steps |-> << PlaybookStep("log", "None", "continue"),
                         PlaybookStep("notify", "None", "abort"),
                         PlaybookStep("log", "dict", "continue") >>,
            enabled |-> TRUE,
            cooldown |-> CriticalThreatCooldown,
            max_executions_per_hour |-> DefaultMaxExecutionsPerHour]
      [] n = "muted" ->
           [name |-> n,
            trigger_types |-> {"*"},
            trigger_severities |-> {"*"},
            steps |-> << PlaybookStep("log", "dict", "continue") >>,
            enabled |-> FALSE,
            cooldown |-> CriticalThreatCooldown,
            max_executions_per_hour |-> DefaultMaxExecutionsPerHour] ]

PlaybookNames == DOMAIN playbooks

\* the alerts handed to process_alert
IPs == {"10.0.0.1", "10.0.0.2"}
Alert(t, s, ip) == [type |-> t, severity |-> s, source_ip |-> ip]
Alerts ==
  { Alert("RANSOMWARE_DETECTED", "CRITICAL", "10.0.0.1"),
    Alert("PORT_SCAN", "HIGH", "10.0.0.2"),
    Alert("BRUTE_FORCE", "LOW", "10.0.0.2") }

CooldownKey(ip, playbook_name) == <<ip, playbook_name>>
CooldownKeys == IPs \X PlaybookNames

ThreadIds == 1..MaxThreads

VARIABLES
  enabled, dry_run, require_approval, max_blocks_per_hour,  \* configuration
  now, nticks,                                              \* time.time()
  execution,           \* heap of PlaybookExecution objects, by execution id
  pending_approvals,   \* ids held for approval
  execution_queue,     \* FIFO of approved / directly queued ids
  executions,          \* history deque(maxlen=1000)
  cooldowns,           \* "ip:playbook" -> last execution time (0 = no entry)
  blocks_this_hour,    \* timestamps of the blocks
  _running,            \* the worker loop condition
  _worker_thread,      \* the latest worker thread, 0 = None
  thread,              \* the worker threads ever created
  joining,             \* stop() is inside _worker_thread.join(timeout=5)
  returned             \* what the last approve/reject call returned

\* the RiskScorer object
VARIABLES
  scorer_enabled,      \* RiskScorer.enabled
  kill_chain,          \* a kill-chain collaborator is configured
  profiles,            \* ip -> AssetRiskProfile
  alert_history,       \* ip -> deque(maxlen=1000) of AlertRecord
  score_history,       \* ip -> deque(maxlen=100) of score samples
  nevents, ndecays     \* calls of process_alert and apply_decay so far

\* two _update_profile calls of one RiskScorer that run in two threads, at the
\* granularity of their reads and writes
VARIABLES
  profile_objects,     \* heap of the AssetRiskProfile objects created
  profiles_ref,        \* self.profiles[ip]: index of an object, 0 = no key
  history_deque,       \* self.alert_history[ip]
  update_call          \* caller -> position and locals of its _update_profile

\* approve_execution / reject_execution calls of API threads, at the
\* granularity of their dict and queue operations
VARIABLES
  api_call             \* caller -> position and locals of its call

\* the ProtocolParser object (src/protocol_parser.py) and what its callers saw
VARIABLES
  smb_sessions,        \* "src:dst" -> commands, a list of (time, command)
  ldap_sessions,       \* "src:dst" -> operations, a list of times of searches
  smb_enum_tracker,    \* src -> deque(maxlen=200) of times of directory queries
  ldap_query_tracker,  \* src -> deque(maxlen=200) of times of searches
  threats,             \* what the last analyze_packet call returned
  raised,              \* the last analyze_packet call raised
  threat_count,        \* event type -> events returned so far
  last_packet,         \* (protocol, "src:dst") -> time of the session's last packet
  npackets             \* analyze_packet calls so far

\* the EncryptedTrafficAnalyzer (src/encrypted_traffic_analyzer.py) and the
\* TLSAnalyzer (src/tls_analyzer.py); what their analyze_packet calls return
\* is kept in threats and raised as well
VARIABLES
  sessions,            \* "src:dst:port" -> the SNI of the flow's last Client Hello
  tls_result,          \* what the last TLSAnalyzer.analyze_packet call returned
  last_call            \* the decoder and the packet of the last analyze_packet call

config == <<enabled, dry_run, require_approval, max_blocks_per_hour>>
risk_vars == <<scorer_enabled, kill_chain, profiles, alert_history,
               score_history, nevents, ndecays>>
update_vars == <<profile_objects, profiles_ref, history_deque, update_call>>
\* the variables that neither the engine nor the sequential scorer touches
parser_vars == <<smb_sessions, ldap_sessions, smb_enum_tracker,
                 ldap_query_tracker, threats, raised, threat_count,
                 last_packet, npackets>>
decoder_vars == <<sessions, tls_result, last_call>>
aux_vars == <<update_vars, api_call, parser_vars, decoder_vars>>
vars == <<enabled, dry_run, require_approval, max_blocks_per_hour, now, nticks,
          execution, pending_approvals, execution_queue, executions,
          cooldowns, blocks_this_hour, _running, _worker_thread, thread,
          joining, returned, scorer_enabled, kill_chain, profiles,
          alert_history, score_history, nevents, ndecays,
          profile_objects, profiles_ref, history_deque, update_call,
          api_call, smb_sessions, ldap_sessions, smb_enum_tracker,
          ldap_query_tracker, threats, raised, threat_count, last_packet,
          npackets, sessions, tls_result, last_call>>

\* the callers of the concurrent _update_profile calls
Callers == 1..MaxCallers
\* no _update_profile call is under way
UpdateIdle ==
  /\ profile_objects = << >>
  /\ profiles_ref = 0
  /\ history_deque = << >>
  /\ update_call = [c \in Callers |-> [pc |-> "idle", alert_type |-> "", profile |-> 0, read |-> 0]]

\* no approve_execution or reject_execution call is under way
ApiIdle ==
  api_call = [c \in Callers |-> [pc |-> "idle", op |-> "", execution_id |-> 0, returned |-> "none"]]

\* the hosts of the decoded traffic
Hosts == {"10.0.0.5", "10.0.0.9"}
SessionKey(src_ip, dst_ip) == <<src_ip, dst_ip>>
EventTypes ==
  {"SMB1_USAGE_DETECTED", "SMB_ENUMERATION", "SMB_LATERAL_MOVEMENT_PATTERN",
   "LDAP_ENUMERATION"}

\* a ProtocolParser after construction, never called
ParserFresh ==
  /\ smb_sessions = [k \in {} |-> << >>]
  /\ ldap_sessions = [k \in {} |-> << >>]
  /\ smb_enum_tracker = [ip \in Hosts |-> << >>]
  /\ ldap_query_tracker = [ip \in Hosts |-> << >>]
  /\ threats = << >>
  /\ raised = FALSE
  /\ threat_count = [t \in EventTypes |-> 0]
  /\ last_packet = [k \in {} |-> 0]
  /\ npackets = 0

\* no TLS record was analysed yet; None is the result of no call
NoResult == [none |-> TRUE]
NoCall == [decoder |-> "none"]
DecodersFresh ==
  /\ sessions = [k \in {} |-> << >>]
  /\ tls_result = NoResult
  /\ last_call = NoCall

AuxFresh ==
  /\ UpdateIdle
  /\ ApiIdle
  /\ ParserFresh
  /\ DecodersFresh

\* the addresses an alert can name; "" is a missing address
RiskIPs == {"10.0.0.1", "10.0.0.2", "8.8.8.8"}
RiskAddrs == RiskIPs \cup {""}

\* the maps of a RiskScorer after construction (the defaultdicts are read as
\* total maps that start empty)
RiskScorerFresh ==
  /\ profiles = [ip \in {} |-> 0]
  /\ alert_history = [ip \in RiskAddrs |-> << >>]
  /\ score_history = [ip \in RiskAddrs |-> << >>]
  /\ nevents = 0
  /\ ndecays = 0

Ids == 1..Len(execution)

NoThread == [pc |-> "unborn", cur |-> 0, i |-> 0, current_time |-> 0]

\* the containers of a SOAREngine after construction
EngineFresh ==
  /\ now = StartTime
  /\ nticks = 0
  /\ execution = << >>
  /\ pending_approvals = {}
  /\ execution_queue = << >>
  /\ executions = << >>
  /\ cooldowns = [k \in CooldownKeys |-> 0]
  /\ blocks_this_hour = << >>
  /\ _running = FALSE
  /\ _worker_thread = 0
  /\ thread = [w \in ThreadIds |-> NoThread]
  /\ joining = FALSE
  /\ returned = "none"

Init ==
  /\ enabled \in BOOLEAN
  /\ dry_run \in BOOLEAN
  /\ require_approval \in BOOLEAN
  /\ max_blocks_per_hour \in 0..MaxBlocksCfg
  /\ EngineFresh
  /\ scorer_enabled = TRUE
  /\ kill_chain = FALSE
  /\ RiskScorerFresh
  /\ AuxFresh

\* ---------------------------------------------------------------- helpers
RECURSIVE SelectSeq2(_, _)
\* the entries of a sequence s that are in the set keep, in order
SelectSeq2(s, keep) ==
  IF s = << >> THEN << >>
  ELSE IF Head(s) \in keep THEN <<Head(s)>> \o SelectSeq2(Tail(s), keep)
       ELSE SelectSeq2(Tail(s), keep)

\* deque(maxlen=n).append
DequeAppend(d, x, maxlen) ==
  IF Len(d) >= maxlen THEN Append(Tail(d), x) ELSE Append(d, x)

\* ------------------------------------------------------------ process_alert
\* a match that knows no '*' wildcard
matches_exact(p, alert_type, severity) ==
  /\ p.enabled
  /\ alert_type \in p.trigger_types
  /\ severity \in p.trigger_severities

\* _find_matching_playbooks: names of the matching playbooks, in dict order
matches(p, alert_type, severity) ==
  /\ p.enabled
  /\ (alert_type \in p.trigger_types \/ "*" \in p.trigger_types)
  /\ (severity \in p.trigger_severities \/ "*" \in p.trigger_severities)

_find_matching_playbooks(alert_type, severity) ==
  SelectSeq2(PlaybookOrder,
             {n \in PlaybookNames : matches(playbooks[n], alert_type, severity)})

_in_cooldown(ip, playbook_name, cooldown) ==
  now - cooldowns[CooldownKey(ip, playbook_name)] < cooldown

\* the PlaybookExecution built by _queue_execution
NewExecution(playbook_name, alert) ==
  [playbook_name |-> playbook_name,
   trigger_alert |-> alert,
   status |-> PENDING,
   started_at |-> now,
   steps_completed |-> 0,
   steps_total |-> Len(playbooks[playbook_name].steps),
   results |-> << >>,
   error |-> "None"]

\* a _queue_execution that skips the approval gate
_queue_execution_ungated == FALSE

\* where _queue_execution puts a new execution
_queue_execution_to_pending == require_approval

\* the playbooks process_alert queues for an alert: matching, not in cooldown
ToQueue(alert) ==
  SelectSeq2(_find_matching_playbooks(alert.type, alert.severity),
             {n \in PlaybookNames :
                ~ _in_cooldown(alert.source_ip, n, playbooks[n].cooldown)})

\* the list process_alert returns: one entry per _queue_execution call
process_alert_responses(alert) ==
  IF ~ enabled
    THEN << >>
    ELSE LET names == ToQueue(alert)
         IN [k \in 1..Len(names) |->
              [playbook |-> names[k],
               execution_id |-> Len(execution) + k,
               status |-> IF require_approval THEN "queued" ELSE "executing"]]

process_alert(alert) ==
  /\ IF ~ enabled
       THEN UNCHANGED <<execution, pending_approvals, execution_queue>>
       ELSE LET names == ToQueue(alert)
                first == Len(execution) + 1
                new   == [k \in 1..Len(names) |-> NewExecution(names[k], alert)]
                ids   == [k \in 1..Len(names) |-> first + k - 1]
            IN /\ Len(execution) + Len(names) <= MaxExec
               /\ execution' = execution \o new
               /\ IF _queue_execution_to_pending
                    THEN /\ pending_approvals' =
                              pending_approvals \cup {ids[k] : k \in 1..Len(names)}
                         /\ UNCHANGED execution_queue
                    ELSE /\ execution_queue' = execution_queue \o ids
                         /\ UNCHANGED pending_approvals
  /\ UNCHANGED <<aux_vars, risk_vars, config, now, nticks, executions, cooldowns, blocks_this_hour,
                 _running, _worker_thread, thread, joining, returned>>

\* ------------------------------------------------ approve / reject (API)
\* an approve_execution that reads the pending entry without removing it
approve_execution_keep(execution_id) ==
  /\ IF execution_id \notin pending_approvals
       THEN /\ returned' = "False"
            /\ UNCHANGED <<pending_approvals, execution_queue>>
       ELSE /\ UNCHANGED pending_approvals
            /\ execution_queue' = Append(execution_queue, execution_id)
            /\ returned' = "True"
  /\ UNCHANGED <<aux_vars, risk_vars, config, now, nticks, execution, executions, cooldowns,
                 blocks_this_hour, _running, _worker_thread, thread, joining>>

approve_execution(execution_id) ==
  /\ IF execution_id \notin pending_approvals
       THEN /\ returned' = "False"
            /\ UNCHANGED <<pending_approvals, execution_queue>>
       ELSE /\ pending_approvals' = pending_approvals \ {execution_id}
            /\ execution_queue' = Append(execution_queue, execution_id)
            /\ returned' = "True"
  /\ UNCHANGED <<aux_vars, risk_vars, config, now, nticks, execution, executions, cooldowns,
                 blocks_this_hour, _running, _worker_thread, thread, joining>>

\* a reject_execution that marks the execution but leaves it pending
reject_execution_keep(execution_id) ==
  /\ IF execution_id \notin pending_approvals
       THEN /\ returned' = "False"
            /\ UNCHANGED <<pending_approvals, execution, executions>>
       ELSE /\ UNCHANGED pending_approvals
            /\ execution' = [execution EXCEPT ![execution_id].status = SKIPPED]
            /\ executions' = DequeAppend(executions, execution_id, ExecutionsMaxLen)
            /\ returned' = "True"
  /\ UNCHANGED <<aux_vars, risk_vars, config, now, nticks, execution_queue, cooldowns,
                 blocks_this_hour, _running, _worker_thread, thread, joining>>

\* a reject_execution that forgets the history
reject_execution_unrecorded(execution_id) ==
  /\ IF execution_id \notin pending_approvals
       THEN /\ returned' = "False"
            /\ UNCHANGED <<pending_approvals, execution, executions>>
       ELSE /\ pending_approvals' = pending_approvals \ {execution_id}
            /\ execution' = [execution EXCEPT ![execution_id].status = SKIPPED]
            /\ UNCHANGED executions
            /\ returned' = "True"
  /\ UNCHANGED <<aux_vars, risk_vars, config, now, nticks, execution_queue, cooldowns,
                 blocks_this_hour, _running, _worker_thread, thread, joining>>

reject_execution(execution_id) ==
  /\ IF execution_id \notin pending_approvals
       THEN /\ returned' = "False"
            /\ UNCHANGED <<pending_approvals, execution, executions>>
       ELSE /\ pending_approvals' = pending_approvals \ {execution_id}
            /\ execution' = [execution EXCEPT ![execution_id].status = SKIPPED]
            /\ executions' = DequeAppend(executions, execution_id, ExecutionsMaxLen)
            /\ returned' = "True"
  /\ UNCHANGED <<aux_vars, risk_vars, config, now, nticks, execution_queue, cooldowns,
                 blocks_this_hour, _running, _worker_thread, thread, joining>>

\* get_pending_approvals: the dict keeps insertion order, which is id order
RECURSIVE SortedIds(_)
SortedIds(S) ==
  IF S = {} THEN << >>
  ELSE LET m == CHOOSE x \in S : \A y \in S : x <= y
       IN <<m>> \o SortedIds(S \ {m})

get_pending_approvals ==
  LET ids == SortedIds(pending_approvals)
  IN [k \in 1..Len(ids) |->
        [execution_id |-> ids[k],
         playbook     |-> execution[ids[k]].playbook_name,
         alert_type   |-> execution[ids[k]].trigger_alert.type,
         source_ip    |-> execution[ids[k]].trigger_alert.source_ip,
         queued_at    |-> execution[ids[k]].started_at]]

\* ----------------------------------------------------------- start / stop
Alive(w) == thread[w].pc \notin {"unborn", "dead"}
Executing(w) == thread[w].pc \in {"step", "block_append"}

\* start(): a no-op while _running; otherwise a new thread enters the loop.
\* The caller of stop() is blocked in join (joining) and cannot call start.
start ==
  /\ ~ joining
  /\ IF _running
       THEN UNCHANGED <<_running, _worker_thread, thread>>
       ELSE \E w \in ThreadIds :
              /\ thread[w].pc = "unborn"
              /\ \A v \in ThreadIds : v < w => thread[v].pc # "unborn"
              /\ _running' = TRUE
              /\ _worker_thread' = w
              /\ thread' = [thread EXCEPT ![w].pc = "loop"]
  /\ UNCHANGED <<aux_vars, risk_vars, config, now, nticks, execution, pending_approvals,
                 execution_queue, executions, cooldowns, blocks_this_hour,
                 joining, returned>>

\* stop(): clears the flag and joins the latest thread with timeout=5
stop ==
  /\ ~ joining
  /\ _running' = FALSE
  /\ joining' = (_worker_thread # 0)
  /\ UNCHANGED <<aux_vars, risk_vars, config, now, nticks, execution, pending_approvals,
                 execution_queue, executions, cooldowns, blocks_this_hour,
                 _worker_thread, thread, returned>>

\* the thread is inside the one call of the playbooks that can outlast the
\* join: _send_webhook's requests.post(..., timeout=10), made by a notify step
\* that got its parameters when dry_run is off
InSlowCall(w) ==
  /\ thread[w].pc = "step"
  /\ ~ dry_run
  /\ LET step == playbooks[execution[thread[w].cur].playbook_name].steps[thread[w].i]
     IN step.action = "notify" /\ step.parameters = "dict"

\* join(timeout=5) returns: the thread has ended, or the 5 seconds are over
\* while it is inside a slow call.  A thread waiting in
\* execution_queue.get(timeout=1) or between two fast steps gets to its next
\* loop test or slow call first and is waited for.
stop_join_returns ==
  /\ joining
  /\ \/ ~ Alive(_worker_thread)
     \/ InSlowCall(_worker_thread)
  /\ joining' = FALSE
  /\ UNCHANGED <<aux_vars, risk_vars, config, now, nticks, execution, pending_approvals,
                 execution_queue, executions, cooldowns, blocks_this_hour,
                 _running, _worker_thread, thread, returned>>

\* ------------------------------------------------------------------ time
Tick ==
  /\ nticks < MaxTicks
  /\ \E d \in TickSteps : now' = now + d
  /\ nticks' = nticks + 1
  /\ UNCHANGED <<aux_vars, risk_vars, config, execution, pending_approvals, execution_queue,
                 executions, cooldowns, blocks_this_hour, _running,
                 _worker_thread, thread, joining, returned>>

\* ------------------------------------------------------------ the worker
ImplementedActions ==
  {"log", "enrich", "notify", "capture", "block_ip", "rate_limit", "script"}

\* the dict _execute_step returns
StepResult(step, success, details, error) ==
  [action |-> step.action, success |-> success, dry_run |-> dry_run,
   details |-> details, error |-> error]

\* an implemented action called with parameters=None raises on params.get
Raises(step) == step.action \in ImplementedActions /\ step.parameters = "None"

\* what the _action_* other than _action_block_ip return (a webhook that
\* answers 200, db unset, email disabled, no script configured)
ActionDetails(step) ==
  CASE step.action = "log" -> [logged |-> TRUE]
    [] step.action = "enrich" -> << >>
    [] step.action = "notify" -> [sent |-> <<"webhook">>]
    [] step.action = "capture" ->
         IF dry_run THEN [started |-> FALSE, dry_run |-> TRUE]
                    ELSE [started |-> TRUE]
    [] step.action = "rate_limit" ->
         IF dry_run THEN [applied |-> FALSE, dry_run |-> TRUE]
                    ELSE [applied |-> TRUE]
    [] step.action = "script" ->
         [executed |-> FALSE, error |-> "No script specified"]
    [] OTHER -> [message |-> "not implemented"]

\* _execute_step for every action but a block_ip that gets past params.get
_execute_step(step) ==
  IF Raises(step)
    THEN StepResult(step, FALSE, "None", "AttributeError")
    ELSE StepResult(step, TRUE, ActionDetails(step), "None")

\* _action_block_ip, first half: prune the deque, test the cap, test dry_run
Pruned(blocks, current_time) ==
  SelectSeq(blocks, LAMBDA t : current_time - t < BlockWindow)

CapReached(blocks) == Len(blocks) >= max_blocks_per_hour

CapExceededDetails ==
  [blocked |-> FALSE, error |-> "Max blocks per hour exceeded"]

\* a dry run that reports a block
DryRunDetailsBlocked(ip) == [blocked |-> TRUE, dry_run |-> TRUE, ip |-> ip]

DryRunDetails(ip) == [blocked |-> FALSE, dry_run |-> TRUE, ip |-> ip]

BlockedDetails(ip) == [blocked |-> TRUE, ip |-> ip]

\* the success flag of a block_ip step whose action returned (did not raise)
BlockStepSuccess(details) == TRUE

\* an abort test that ignores the step's policy
AbortsOnAnyFailure(step, step_result) == ~ step_result.success

\* the abort test of the step loop of _execute_playbook
Aborts(step, step_result) ==
  ~ step_result.success /\ step.on_failure = "abort"

\* a playbook tail that reports completion whatever the loop did
FinalStatusCompleted(status) == COMPLETED

\* a playbook tail that leaves the status as the loop left it
FinalStatusKept(status) == status

\* status after the loop
FinalStatus(status) == IF status = RUNNING THEN COMPLETED ELSE status

\* _execute_playbook, loop body after _execute_step returned step_result for
\* step i of execution id run by thread w, and, when the loop ends, the tail
\* of _execute_playbook (final status, completed_at, history)
RecordStep(w, id, step_result) ==
  LET pb      == playbooks[execution[id].playbook_name]
      i       == thread[w].i
      step    == pb.steps[i]
      aborted == Aborts(step, step_result)
      done    == aborted \/ i = Len(pb.steps)
      e1      == [execution[id] EXCEPT !.results = Append(@, step_result),
                                       !.steps_completed = i]
      e2      == IF aborted
                   THEN [e1 EXCEPT !.status = FAILED, !.error = step_result.error]
                   ELSE e1
      e3      == IF done
                   THEN [e2 EXCEPT !.status = FinalStatus(@)]
                   ELSE e2
  IN /\ execution' = [execution EXCEPT ![id] = e3]
     /\ IF done
          THEN /\ executions' = DequeAppend(executions, id, ExecutionsMaxLen)
               /\ thread' = [thread EXCEPT ![w] = [pc |-> "loop", cur |-> 0, i |-> 0,
                                                   current_time |-> 0]]
          ELSE /\ UNCHANGED executions
               /\ thread' = [thread EXCEPT ![w] = [pc |-> "step", cur |-> id, i |-> i + 1,
                                                   current_time |-> 0]]

\* while self._running: ... (the loop test)
worker_loop_test(w) ==
  /\ thread[w].pc = "loop"
  /\ thread' = [thread EXCEPT ![w].pc = IF _running THEN "get" ELSE "dead"]
  /\ UNCHANGED <<aux_vars, risk_vars, config, now, nticks, execution, pending_approvals,
                 execution_queue, executions, cooldowns, blocks_this_hour,
                 _running, _worker_thread, joining, returned>>

\* execution_queue.get(timeout=1) raises Empty: continue
worker_get_empty(w) ==
  /\ thread[w].pc = "get"
  /\ execution_queue = << >>
  /\ thread' = [thread EXCEPT ![w].pc = "loop"]
  /\ UNCHANGED <<aux_vars, risk_vars, config, now, nticks, execution, pending_approvals,
                 execution_queue, executions, cooldowns, blocks_this_hour,
                 _running, _worker_thread, joining, returned>>

\* execution_queue.get returns; _execute_playbook up to the step loop
worker_get(w) ==
  /\ thread[w].pc = "get"
  /\ execution_queue # << >>
  /\ LET id  == Head(execution_queue)
         e   == execution[id]
         key == CooldownKey(e.trigger_alert.source_ip, e.playbook_name)
     IN /\ execution_queue' = Tail(execution_queue)
        /\ cooldowns' = [cooldowns EXCEPT ![key] = now]
        /\ IF e.steps_total = 0
             THEN /\ execution' = [execution EXCEPT ![id].status = COMPLETED]
                  /\ executions' = DequeAppend(executions, id, ExecutionsMaxLen)
                  /\ thread' = [thread EXCEPT ![w].pc = "loop"]
             ELSE /\ execution' = [execution EXCEPT ![id].status = RUNNING]
                  /\ UNCHANGED executions
                  /\ thread' = [thread EXCEPT ![w] = [pc |-> "step", cur |-> id, i |-> 1,
                                                      current_time |-> 0]]
  /\ UNCHANGED <<aux_vars, risk_vars, config, now, nticks, pending_approvals, blocks_this_hour,
                 _running, _worker_thread, joining, returned>>

\* one iteration of the step loop; a block_ip that is allowed and not a dry
\* run stops before blocks_this_hour.append
worker_step(w) ==
  /\ thread[w].pc = "step"
  /\ LET id   == thread[w].cur
         e    == execution[id]
         step == playbooks[e.playbook_name].steps[thread[w].i]
         ip   == e.trigger_alert.source_ip
     IN IF step.action = "block_ip" /\ ~ Raises(step)
          THEN LET pruned == Pruned(blocks_this_hour, now)
               IN /\ blocks_this_hour' = pruned
                  /\ IF CapReached(pruned)
                       THEN RecordStep(w, id,
                              StepResult(step, BlockStepSuccess(CapExceededDetails),
                                         CapExceededDetails, "None"))
                       ELSE IF dry_run
                         THEN RecordStep(w, id,
                                StepResult(step, BlockStepSuccess(DryRunDetails(ip)),
                                           DryRunDetails(ip), "None"))
                         ELSE /\ thread' = [thread EXCEPT ![w].pc = "block_append",
                                                          ![w].current_time = now]
                              /\ UNCHANGED <<execution, executions>>
          ELSE /\ RecordStep(w, id, _execute_step(step))
               /\ UNCHANGED blocks_this_hour
  /\ UNCHANGED <<aux_vars, risk_vars, config, now, nticks, pending_approvals, execution_queue,
                 cooldowns, _running, _worker_thread, joining, returned>>

\* _action_block_ip, second half: blocks_this_hour.append(current_time)
worker_block_append(w) ==
  /\ thread[w].pc = "block_append"
  /\ LET id   == thread[w].cur
         e    == execution[id]
         step == playbooks[e.playbook_name].steps[thread[w].i]
         ip   == e.trigger_alert.source_ip
     IN /\ blocks_this_hour' = Append(blocks_this_hour, thread[w].current_time)
        /\ RecordStep(w, id,
             StepResult(step, BlockStepSuccess(BlockedDetails(ip)),
                        BlockedDetails(ip), "None"))
  /\ UNCHANGED <<aux_vars, risk_vars, config, now, nticks, pending_approvals, execution_queue,
                 cooldowns, _running, _worker_thread, joining, returned>>

Next ==
  \/ \E alert \in Alerts : process_alert(alert)
  \/ \E id \in 1..MaxExec : approve_execution(id)
  \/ \E id \in 1..MaxExec : reject_execution(id)
  \/ start
  \/ stop
  \/ stop_join_returns
  \/ Tick
  \/ \E w \in ThreadIds : worker_loop_test(w)
  \/ \E w \in ThreadIds : worker_get_empty(w)
  \/ \E w \in ThreadIds : worker_get(w)
  \/ \E w \in ThreadIds : worker_step(w)
  \/ \E w \in ThreadIds : worker_block_append(w)

Spec == Init /\ [][Next]_vars

\* ------------------------------------------- the engine while it is not stopped
\* a step of a worker thread
WorkerNext ==
  \/ \E w \in ThreadIds : worker_loop_test(w)
  \/ \E w \in ThreadIds : worker_get_empty(w)
  \/ \E w \in ThreadIds : worker_get(w)
  \/ \E w \in ThreadIds : worker_step(w)
  \/ \E w \in ThreadIds : worker_block_append(w)

\* the operations of an engine on which stop() is never called
NextRunning ==
  \/ \E alert \in Alerts : process_alert(alert)
  \/ \E id \in 1..MaxExec : approve_execution(id)
  \/ \E id \in 1..MaxExec : reject_execution(id)
  \/ start
  \/ Tick
  \/ WorkerNext

\* the worker thread is scheduled again and again, and every call it makes
\* returns: a step of the thread that stays possible is taken
SpecRunning == Init /\ [][NextRunning]_vars /\ WF_vars(WorkerNext)

\* ============================================================ risk scorer
\* ------------------------------------------------------------------ bounds
MaxRiskEvents == 2
MaxTrendEvents == 6
MaxRiskTicks == 2
MaxDecays == 2

\* ------------------------------------------------------- program constants
AlertHistoryMaxLen == 1000
ScoreHistoryMaxLen == 100
TrendMinSamples == 3
TrendRecentSamples == 5
SecondsPerHour == 3600
\* the defaults of the configuration
decay_interval == 3600
decay_rate == <<1, 10>>

\* amounts of time between two calls of the scorer: the decay interval, two
\* hours, and seven days
RiskTickSteps == {decay_interval, 2 * SecondsPerHour, 168 * SecondsPerHour}

\* ------------------------------------------------- float arithmetic, exact
RECURSIVE GCD(_, _)
GCD(a, b) == IF b = 0 THEN a ELSE GCD(b, a % b)

\* the fraction n/d (d > 0) in lowest terms
Frac(n, d) ==
  LET g == GCD(IF n < 0 THEN 0 - n ELSE n, d)
  IN <<n \div g, d \div g>>

Zero == <<0, 1>>
One == <<1, 1>>
Tenths(k) == Frac(k, 10)
FracMul(x, y) == Frac(x[1] * y[1], x[2] * y[2])
FracAdd(x, y) == Frac(x[1] * y[2] + y[1] * x[2], x[2] * y[2])
FracSub(x, y) == Frac(x[1] * y[2] - y[1] * x[2], x[2] * y[2])
FracDivInt(x, k) == Frac(x[1], x[2] * k)
FracLess(x, y) == x[1] * y[2] < y[1] * x[2]
FracMin(x, y) == IF FracLess(y, x) THEN y ELSE x
FracMax(x, y) == IF FracLess(x, y) THEN y ELSE x

RECURSIVE FracSum(_)
FracSum(s) == IF s = << >> THEN Zero ELSE FracAdd(Head(s), FracSum(Tail(s)))

\* ------------------------------------------------------------ weight tables
SEVERITY_WEIGHTS(severity) ==
  CASE severity = "LOW" -> Tenths(10)
    [] severity = "MEDIUM" -> Tenths(30)
    [] severity = "HIGH" -> Tenths(70)
    [] severity = "CRITICAL" -> Tenths(150)
    [] OTHER -> Tenths(10)

ALERT_TYPE_WEIGHTS(alert_type) ==
  CASE alert_type \in {"RANSOMWARE_DETECTED"} -> Tenths(250)
    [] alert_type \in {"DCSYNC_ATTACK", "NTDS_DIT_ACCESS", "LSASS_DUMP_ACCESS",
                       "HIGH_RISK_ATTACK_CHAIN"} -> Tenths(200)
    [] alert_type \in {"C2_COMMUNICATION"} -> Tenths(180)
    [] alert_type \in {"KERBEROASTING_ATTACK", "ASREP_ROASTING_ATTACK",
                       "PASS_THE_HASH_SUSPECTED", "MALICIOUS_JA3_FINGERPRINT"}
         -> Tenths(150)
    [] alert_type \in {"DATA_EXFILTRATION"} -> Tenths(140)
    [] alert_type \in {"LATERAL_MOVEMENT", "BEACON_DETECTED"} -> Tenths(120)
    [] alert_type \in {"SMB_ADMIN_SHARE_ACCESS", "DNS_TUNNEL", "THREAT_FEED_MATCH"}
         -> Tenths(100)
    [] alert_type \in {"BRUTE_FORCE", "KERBEROS_BRUTEFORCE",
                       "LDAP_SENSITIVE_ATTR_QUERY", "BLACKLISTED_IP"} -> Tenths(80)
    [] alert_type \in {"INTERNAL_PORT_SCAN", "SMB_ENUMERATION", "LDAP_ENUMERATION"}
         -> Tenths(60)
    [] alert_type \in {"PORT_SCAN"} -> Tenths(50)
    [] alert_type \in {"CONNECTION_FLOOD"} -> Tenths(40)
    [] alert_type \in {"UNUSUAL_PACKET_SIZE"} -> Tenths(20)
    [] OTHER -> Tenths(50)

category_multipliers(category) ==
  CASE category = "CRITICAL" -> Tenths(20)
    [] category = "HIGH" -> Tenths(15)
    [] category = "MEDIUM" -> Tenths(10)
    [] category = "LOW" -> Tenths(7)
    [] category = "UNKNOWN" -> Tenths(10)
    [] OTHER -> Tenths(10)

exposure_multipliers(exposure) ==
  CASE exposure = "INTERNET_FACING" -> Tenths(15)
    [] exposure = "DMZ" -> Tenths(12)
    [] exposure = "INTERNAL_ONLY" -> Tenths(10)
    [] OTHER -> Tenths(10)

\* a role weight that does not tell attacker from victim
role_weight_flat(is_source) == Tenths(10)

\* role_weight = 1.5 if record.is_source else 1.0
role_weight(is_source) == IF is_source THEN Tenths(15) ELSE Tenths(10)

\* score *= 1.3
ChainBonus == Tenths(13)

_get_time_weight(age_seconds) ==
  IF age_seconds < 1 * SecondsPerHour THEN Tenths(10)
  ELSE IF age_seconds < 6 * SecondsPerHour THEN Tenths(9)
  ELSE IF age_seconds < 24 * SecondsPerHour THEN Tenths(7)
  ELSE IF age_seconds < 72 * SecondsPerHour THEN Tenths(5)
  ELSE IF age_seconds < 168 * SecondsPerHour THEN Tenths(3)
  ELSE Tenths(1)

\* ------------------------------------------------------------ collaborators
\* the device inventory (db): the template name of the device at an address,
\* "None" for an address without device or template
DeviceType(ip) ==
  CASE ip = "10.0.0.2" -> "Printer"
    [] ip = "8.8.8.8" -> "Web Server"
    [] OTHER -> "None"

\* _categorize_device on the template names of the inventory
_categorize_device(device_type) ==
  CASE device_type = "None" -> "UNKNOWN"
    [] device_type = "Domain Controller" -> "CRITICAL"
    [] device_type = "Web Server" -> "HIGH"
    [] device_type = "Workstation" -> "MEDIUM"
    [] device_type = "Printer" -> "LOW"
    [] OTHER -> "UNKNOWN"

\* the default internal networks 10/8, 172.16/12, 192.168/16
_is_internal_ip(ip) == ip \in {"10.0.0.1", "10.0.0.2"}

\* what kill_chain.get_chains_for_ip does: returns [] ("none", also when no
\* collaborator is configured and no call is made), returns one chain with a
\* max_stage ("chains"), or raises ("raise")
KillChainResults == {"none", "chains", "raise"}
KillChainResultsNow == IF kill_chain THEN KillChainResults ELSE {"none"}

\* ------------------------------------------------------- alerts and records
RiskAlert(t, s, src, dst) ==
  [type |-> t, severity |-> s, source_ip |-> src, destination_ip |-> dst]

\* the events handed to RiskScorer.process_alert: a known type between two
\* assets, an asset that names itself, an unknown type and severity from
\* outside, and events without source or without destination
RiskAlerts ==
  { RiskAlert("RANSOMWARE_DETECTED", "CRITICAL", "10.0.0.1", "10.0.0.2"),
    RiskAlert("PORT_SCAN", "LOW", "10.0.0.1", "10.0.0.1"),
    RiskAlert("NEW_DETECTOR", "INFO", "8.8.8.8", "10.0.0.1"),
    RiskAlert("BRUTE_FORCE", "MEDIUM", "", "10.0.0.2"),
    RiskAlert("PORT_SCAN", "LOW", "10.0.0.2", "") }

\* the events of the trend scenarios: one asset, a heavy and a light event
TrendAlerts ==
  { RiskAlert("RANSOMWARE_DETECTED", "CRITICAL", "10.0.0.1", "10.0.0.1"),
    RiskAlert("PORT_SCAN", "LOW", "10.0.0.1", "10.0.0.1") }

AlertRecord(alert, is_source) ==
  [timestamp |-> now,
   alert_type |-> alert.type,
   severity |-> alert.severity,
   source_ip |-> alert.source_ip,
   destination_ip |-> alert.destination_ip,
   is_source |-> is_source]

\* ----------------------------------------------------------- the profiles
\* last_alert = 0 stands for None (both are false in "if profile.last_alert")
_create_profile(ip) ==
  [ip_address |-> ip,
   category |-> _categorize_device(DeviceType(ip)),
   exposure |-> IF _is_internal_ip(ip) THEN "INTERNAL_ONLY" ELSE "INTERNET_FACING",
   current_risk_score |-> Zero,
   max_risk_score |-> Zero,
   risk_trend |-> "stable",
   total_alerts |-> 0,
   alert_types |-> [t \in {} |-> 0],
   is_attacker |-> FALSE,
   is_victim |-> FALSE,
   attack_chain_count |-> 0,
   kill_chain_stage |-> "None",
   last_alert |-> 0]

\* the term of one alert record in the sum of _calculate_risk_score
AlertTerm(record) ==
  FracMul(FracMul(FracMul(ALERT_TYPE_WEIGHTS(record.alert_type),
                          SEVERITY_WEIGHTS(record.severity)),
                  _get_time_weight(now - record.timestamp)),
          role_weight(record.is_source))

RECURSIVE AlertSum(_)
AlertSum(alerts) ==
  IF alerts = << >> THEN Zero
  ELSE FracAdd(AlertSum(SubSeq(alerts, 1, Len(alerts) - 1)),
               AlertTerm(alerts[Len(alerts)]))

\* a score that is not normalized
NormalizeOff(score) == score

\* min(100.0, score)
Normalize(score) == FracMin(<<100, 1>>, score)

\* a maximum that follows the current score
MaxScoreLatest(current, max) == current

\* if current_risk_score > max_risk_score: max_risk_score = current_risk_score
MaxScore(current, max) == IF FracLess(max, current) THEN current ELSE max

\* _calculate_risk_score when get_chains_for_ip returns (chains is "none" or
\* "chains")
_calculate_risk_score(profile, alerts, chains) ==
  LET s0 == AlertSum(alerts)
      s1 == FracMul(s0, category_multipliers(profile.category))
      s2 == FracMul(s1, exposure_multipliers(profile.exposure))
      s3 == IF chains = "chains" THEN FracMul(s2, ChainBonus) ELSE s2
      current == Normalize(s3)
  IN [profile EXCEPT
        !.attack_chain_count =
           IF kill_chain THEN (IF chains = "chains" THEN 1 ELSE 0) ELSE @,
        !.kill_chain_stage =
           IF chains = "chains" THEN "lateral_movement" ELSE @,
        !.current_risk_score = current,
        !.max_risk_score = MaxScore(current, @)]

Mean(s) == FracDivInt(FracSum(s), Len(s))

\* a trend without the 20% margins
_update_trend_no_margin(history) ==
  IF Len(history) <= TrendRecentSamples THEN "stable"
  ELSE LET n      == Len(history)
           recent == SubSeq(history, n - TrendRecentSamples + 1, n)
           older  == SubSeq(history, 1, n - TrendRecentSamples)
       IN IF FracLess(Mean(older), Mean(recent)) THEN "increasing"
          ELSE IF FracLess(Mean(recent), Mean(older)) THEN "decreasing"
          ELSE "stable"

\* the trend _update_trend sets from the score history
_update_trend(history) ==
  IF Len(history) < TrendMinSamples THEN "stable"
  ELSE LET n      == Len(history)
           recent == SubSeq(history, IF n > TrendRecentSamples
                                       THEN n - TrendRecentSamples + 1 ELSE 1, n)
           older  == IF n > TrendRecentSamples
                       THEN SubSeq(history, 1, n - TrendRecentSamples)
                       ELSE << >>
       IN IF older = << >> THEN "stable"
          ELSE IF FracLess(FracMul(Mean(older), Tenths(12)), Mean(recent))
                 THEN "increasing"
          ELSE IF FracLess(Mean(recent), FracMul(Mean(older), Tenths(8)))
                 THEN "decreasing"
          ELSE "stable"

\* alert_types[alert_type] = alert_types.get(alert_type, 0) + 1
CountType(alert_types, alert_type) ==
  [t \in DOMAIN alert_types \cup {alert_type} |->
     IF t = alert_type
       THEN (IF t \in DOMAIN alert_types THEN alert_types[t] ELSE 0) + 1
       ELSE alert_types[t]]

\* the three maps of the scorer
RiskState ==
  [profiles |-> profiles, alert_history |-> alert_history,
   score_history |-> score_history]

\* _update_profile on the maps st; when get_chains_for_ip raises, the
\* exception leaves _update_profile after the counters and flags are written
\* and before the score and the trend are
_update_profile(st, ip, alert_record, chains) ==
  LET p0    == IF ip \in DOMAIN st.profiles THEN st.profiles[ip]
                                            ELSE _create_profile(ip)
      alerts == DequeAppend(st.alert_history[ip], alert_record, AlertHistoryMaxLen)
      p1    == [p0 EXCEPT
                  !.total_alerts = @ + 1,
                  !.last_alert = alert_record.timestamp,
                  !.alert_types = CountType(@, alert_record.alert_type),
                  !.is_attacker = IF alert_record.is_source THEN TRUE ELSE @,
                  !.is_victim = IF alert_record.is_source THEN @ ELSE TRUE]
      p2    == IF chains = "raise" THEN p1
               ELSE _calculate_risk_score(p1, alerts, chains)
      samples == IF chains = "raise" THEN st.score_history[ip]
                 ELSE DequeAppend(st.score_history[ip], p2.current_risk_score,
                                  ScoreHistoryMaxLen)
      p3    == IF chains = "raise" THEN p2
               ELSE [p2 EXCEPT !.risk_trend = _update_trend(samples)]
  IN [profiles |-> [a \in DOMAIN st.profiles \cup {ip} |->
                      IF a = ip THEN p3 ELSE st.profiles[a]],
      alert_history |-> [st.alert_history EXCEPT ![ip] = alerts],
      score_history |-> [st.score_history EXCEPT ![ip] = samples]]

\* the variables of the engine that the scorer does not touch
engine_vars ==
  <<enabled, dry_run, require_approval, max_blocks_per_hour, execution,
    pending_approvals, execution_queue, executions, cooldowns,
    blocks_this_hour, _running, _worker_thread, thread, joining, returned>>

\* a destination that is updated also when it is the source
updates_destination_always(alert) == alert.destination_ip # ""

\* if destination_ip and destination_ip != source_ip
updates_destination(alert) ==
  alert.destination_ip # "" /\ alert.destination_ip # alert.source_ip

\* RiskScorer.process_alert; src_chains and dst_chains are what
\* get_chains_for_ip does in the update of the source and of the destination
\* ("none" where no call is made); an exception leaves process_alert
RiskScorer_process_alert(alert, src_chains, dst_chains) ==
  LET upd_src == scorer_enabled /\ alert.source_ip # ""
      st1     == IF upd_src
                   THEN _update_profile(RiskState, alert.source_ip,
                                        AlertRecord(alert, TRUE), src_chains)
                   ELSE RiskState
      upd_dst == /\ scorer_enabled
                 /\ src_chains # "raise"
                 /\ updates_destination(alert)
      st2     == IF upd_dst
                   THEN _update_profile(st1, alert.destination_ip,
                                        AlertRecord(alert, FALSE), dst_chains)
                   ELSE st1
  IN /\ src_chains \in (IF upd_src THEN KillChainResultsNow ELSE {"none"})
     /\ dst_chains \in (IF upd_dst THEN KillChainResultsNow ELSE {"none"})
     /\ profiles' = st2.profiles
     /\ alert_history' = st2.alert_history
     /\ score_history' = st2.score_history
     /\ nevents' = nevents + 1
     /\ UNCHANGED <<aux_vars, engine_vars, now, nticks, scorer_enabled, kill_chain, ndecays>>

\* a decay factor that is not clamped
DecayFactorUnclamped(idle) ==
  FracSub(One, FracMul(decay_rate, Frac(idle, decay_interval)))

\* decay_factor = max(0.0, min(1.0, 1.0 - decay_rate * (idle / decay_interval)))
DecayFactor(idle) ==
  FracMax(Zero,
          FracMin(One, FracSub(One, FracMul(decay_rate, Frac(idle, decay_interval)))))

\* if profile.last_alert and current_time - profile.last_alert > decay_interval
Decays(profile) ==
  profile.last_alert # 0 /\ now - profile.last_alert > decay_interval

apply_decay ==
  /\ ndecays < MaxDecays
  /\ ndecays' = ndecays + 1
  /\ profiles' =
       [ip \in DOMAIN profiles |->
          IF Decays(profiles[ip])
            THEN [profiles[ip] EXCEPT
                    !.current_risk_score =
                       FracMul(@, DecayFactor(now - profiles[ip].last_alert))]
            ELSE profiles[ip]]
  /\ UNCHANGED <<aux_vars, engine_vars, now, nticks, scorer_enabled, kill_chain,
                 alert_history, score_history, nevents>>

\* time passes between two calls of the scorer
RiskTick ==
  /\ nticks < MaxRiskTicks
  /\ \E d \in RiskTickSteps : now' = now + d
  /\ nticks' = nticks + 1
  /\ UNCHANGED <<aux_vars, engine_vars, risk_vars>>

\* ----------------------------------------------- the scorer's specifications
\* an engine that is constructed with its defaults and never called
EngineIdle ==
  /\ enabled = TRUE
  /\ dry_run = TRUE
  /\ require_approval = TRUE
  /\ max_blocks_per_hour = MaxBlocksCfg
  /\ EngineFresh

RiskInit ==
  /\ EngineIdle
  /\ scorer_enabled \in BOOLEAN
  /\ kill_chain \in BOOLEAN
  /\ RiskScorerFresh
  /\ AuxFresh

NextRisk ==
  \/ /\ nevents < MaxRiskEvents
     /\ \E alert \in RiskAlerts : \E src_chains, dst_chains \in KillChainResults :
          RiskScorer_process_alert(alert, src_chains, dst_chains)
  \/ apply_decay
  \/ RiskTick

SpecRisk == RiskInit /\ [][NextRisk]_vars

\* one asset, many events, no kill-chain collaborator
TrendInit ==
  /\ EngineIdle
  /\ scorer_enabled = TRUE
  /\ kill_chain = FALSE
  /\ RiskScorerFresh
  /\ AuxFresh

NextTrend ==
  \/ /\ nevents < MaxTrendEvents
     /\ \E alert \in TrendAlerts : RiskScorer_process_alert(alert, "none", "none")
  \/ apply_decay
  \/ RiskTick

SpecTrend == TrendInit /\ [][NextTrend]_vars

\* ================================================================ claims
Status(id) == execution[id].status
InQueue(id) == \E k \in 1..Len(execution_queue) : execution_queue[k] = id
InHistory(id) == \E k \in 1..Len(executions) : executions[k] = id
HeldBy(id) == {w \in ThreadIds : Executing(w) /\ thread[w].cur = id}
Occurrences(s, x) == Cardinality({k \in 1..Len(s) : s[k] = x})
Steps(id) == playbooks[execution[id].playbook_name].steps
Results(id) == execution[id].results
AbortFailure(id, k) ==
  ~ Results(id)[k].success /\ Steps(id)[k].on_failure = "abort"

\* the number of places that hold execution id
Places(id) ==
  (IF id \in pending_approvals THEN 1 ELSE 0) + Occurrences(execution_queue, id)
  + Cardinality(HeldBy(id)) + Occurrences(executions, id)

\* C1: every execution is in exactly one place: the pending-approvals map, the
\* execution queue, a worker that runs it, or the execution history; pending
\* executions are PENDING and those in the history are terminal.
C1_OnePlace ==
  \A id \in Ids :
    /\ Places(id) = 1
    /\ ~ (id \in pending_approvals /\ InQueue(id))
    /\ id \in pending_approvals => Status(id) = PENDING
    /\ InQueue(id) => Status(id) = PENDING
    /\ InHistory(id) => Status(id) \in {COMPLETED, FAILED, SKIPPED}

C1_Witness ==
  /\ require_approval
  /\ \E i, j \in Ids :
       /\ InHistory(i) /\ Status(i) = COMPLETED
       /\ j \in pending_approvals

\* C2 (as claimed): two executions of one playbook for one source IP are never
\* created less than the playbook's cooldown apart.
C2_CooldownFromTrigger ==
  \A i, j \in Ids :
    ( /\ i < j
      /\ execution[i].playbook_name = execution[j].playbook_name
      /\ execution[i].trigger_alert.source_ip = execution[j].trigger_alert.source_ip )
    => execution[j].started_at - execution[i].started_at
         >= playbooks[execution[i].playbook_name].cooldown

\* C3: a status changes only along PENDING -> RUNNING -> COMPLETED | FAILED or
\* PENDING -> SKIPPED, and a terminal status never changes.
StatusMoves ==
  {<<PENDING, RUNNING>>, <<RUNNING, COMPLETED>>, <<RUNNING, FAILED>>,
   <<PENDING, SKIPPED>>}

C3_Lifecycle ==
  [][\A id \in Ids :
       Status(id)' # Status(id) => <<Status(id), Status(id)'>> \in StatusMoves]_vars

C3_Witness ==
  \E i, j \in Ids : Status(i) = FAILED /\ Status(j) = SKIPPED

\* C4: with require_approval on, a new execution is held PENDING in the
\* pending-approvals map, only approve_execution(id) or reject_execution(id)
\* takes it out, only approve_execution(id) puts it on the queue, and it becomes
\* RUNNING only from the queue.
C4_ApprovalGate ==
  [][require_approval =>
       /\ \A id \in Ids' \ Ids : id \in pending_approvals' /\ Status(id)' = PENDING
       /\ \A id \in Ids :
            /\ (id \in pending_approvals /\ id \notin pending_approvals')
                 => (approve_execution(id) \/ reject_execution(id))
            /\ (id \in pending_approvals /\ id \in pending_approvals')
                 => (Status(id)' = PENDING /\ Results(id)' = << >>)
            /\ (~ InQueue(id) /\ InQueue(id)')
                 => (id \in pending_approvals /\ approve_execution(id))
            /\ (Status(id) # RUNNING /\ Status(id)' = RUNNING) => InQueue(id)]_vars

C4_Witness ==
  /\ require_approval
  /\ nticks > 0
  /\ \E i, j \in Ids : Status(i) = RUNNING /\ j \in pending_approvals

\* C5: rejecting a pending execution returns true, marks it SKIPPED, takes it
\* out of get_pending_approvals and records it in the history; a SKIPPED
\* execution stays SKIPPED, never gets a step result and never reaches the
\* queue, and approving it returns false; rejecting an id that is not pending
\* returns false and changes nothing else.
Listed(id) ==
  \E k \in 1..Len(get_pending_approvals) : get_pending_approvals[k].execution_id = id

C5_Reject ==
  [][\A id \in 1..MaxExec :
       /\ (reject_execution(id) /\ id \in pending_approvals)
            => /\ returned' = "True"
               /\ Status(id)' = SKIPPED
               /\ ~ Listed(id)'
               /\ InHistory(id)'
       /\ (reject_execution(id) /\ id \notin pending_approvals)
            => /\ returned' = "False"
               /\ UNCHANGED <<execution, pending_approvals, execution_queue,
                              executions, cooldowns, blocks_this_hour, thread>>
       /\ (id \in Ids /\ Status(id) = SKIPPED)
            => /\ Status(id)' = SKIPPED
               /\ Results(id)' = << >>
               /\ ~ InQueue(id)'
               /\ HeldBy(id)' = {}
               /\ approve_execution(id)
                    => (returned' = "False" /\ UNCHANGED execution_queue)]_vars

C5_Witness ==
  /\ returned = "False"
  /\ \E id \in Ids : Status(id) = SKIPPED /\ InHistory(id) /\ ~ Listed(id)

\* C6 (as claimed): at most one execution is RUNNING at any instant.
C6_OneRunning ==
  Cardinality({id \in Ids : Status(id) = RUNNING}) <= 1

\* C7 (as claimed): with dry-run off, the blocks of the last 3600 seconds (each
\* entry of blocks_this_hour is one block_ip step that returned blocked: true)
\* never number more than max_blocks_per_hour.
C7_HourlyCap ==
  ~ dry_run =>
    Cardinality({k \in 1..Len(blocks_this_hour) :
                   now - blocks_this_hour[k] < BlockWindow}) <= max_blocks_per_hour

\* C8 (as claimed): a block_ip step run with the cap reached is a failed step,
\* and with on_failure = abort the execution ends FAILED.
C8_CapIsFailedStep ==
  \A id \in Ids : \A k \in 1..Len(Results(id)) :
    (Results(id)[k].action = "block_ip" /\ Results(id)[k].details = CapExceededDetails)
      => /\ ~ Results(id)[k].success
         /\ Steps(id)[k].on_failure = "abort" => Status(id) = FAILED

\* C9 (as claimed): in dry-run mode every block_ip step returns blocked: false
\* with dry_run: true, whatever max_blocks_per_hour is, and records no block.
BlockIpReturns(id) ==
  {Results(id)[k].details : k \in {n \in 1..Len(Results(id)) :
                                     Results(id)[n].action = "block_ip"}}

IsDryRunReturn(d) ==
  /\ d.blocked = FALSE
  /\ "dry_run" \in DOMAIN d
  /\ d.dry_run = TRUE

C9_DryRunAlways ==
  dry_run =>
    /\ \A id \in Ids : \A d \in BlockIpReturns(id) : IsDryRunReturn(d)
    /\ blocks_this_hour = << >>

\* C9 (amended): in dry-run mode with max_blocks_per_hour >= 1 every block_ip
\* step returns blocked: false with dry_run: true and records no block.
C9_DryRunWithCap ==
  (dry_run /\ max_blocks_per_hour >= 1) =>
    /\ \A id \in Ids : \A d \in BlockIpReturns(id) : IsDryRunReturn(d)
    /\ blocks_this_hour = << >>

C9_Witness ==
  /\ dry_run
  /\ max_blocks_per_hour >= 1
  /\ \E id \in Ids : BlockIpReturns(id) # {} /\ Status(id) = COMPLETED

\* C10: no step runs after a failed step whose policy is abort, and the
\* execution then ends FAILED with that step's error; after a failed step whose
\* policy is continue the remaining steps run, and the execution ends COMPLETED
\* unless an abort step fails.
C10_FailurePolicy ==
  \A id \in Ids :
    LET n == Len(Results(id)) IN
    /\ n <= Len(Steps(id))
    /\ \A k \in 1..n : Results(id)[k].action = Steps(id)[k].action
    /\ \A k \in 1..(n - 1) : ~ AbortFailure(id, k)
    /\ Status(id) = FAILED
         => (n >= 1 /\ AbortFailure(id, n) /\ execution[id].error = Results(id)[n].error)
    /\ Status(id) = COMPLETED
         => (n = Len(Steps(id)) /\ \A k \in 1..n : ~ AbortFailure(id, k))
    /\ Status(id) = RUNNING => (n < Len(Steps(id)) /\ HeldBy(id) # {})

C10_Witness ==
  \E i, j \in Ids :
    /\ Status(i) = FAILED /\ Len(Results(i)) = 2 /\ ~ Results(i)[1].success
    /\ Status(j) = COMPLETED /\ \E k \in 1..Len(Results(j)) : ~ Results(j)[k].success

\* ------------------------------------------------------------------- C11
\* the executions of playbook n created in the hour that starts when
\* execution id is created
CreatedInHourFrom(n, id) ==
  {j \in Ids : /\ execution[j].playbook_name = n
               /\ execution[j].started_at >= execution[id].started_at
               /\ execution[j].started_at < execution[id].started_at + BlockWindow}

\* C11: for each playbook, the number of executions created in any one-hour
\* window, summed over all source IPs, never exceeds the playbook's
\* max_executions_per_hour.
C11_ExecutionsPerHour ==
  \A id \in Ids :
    LET n == execution[id].playbook_name
    IN Cardinality(CreatedInHourFrom(n, id)) <= playbooks[n].max_executions_per_hour

\* ------------------------------------------------------------------- C12
\* the playbooks an alert triggers according to the claim
Triggered(alert) ==
  {n \in PlaybookNames :
     /\ playbooks[n].enabled
     /\ \E t \in playbooks[n].trigger_types : t \in {alert.type, "*"}
     /\ \E s \in playbooks[n].trigger_severities : s \in {alert.severity, "*"}
     /\ now - cooldowns[<<alert.source_ip, n>>] >= playbooks[n].cooldown}

UnimplementedActions == {"alert", "quarantine", "block_domain"}

\* C13: a step whose action tag is not implemented (alert, quarantine,
\* block_domain) yields an explicit error result for that step: success is
\* false and an error is reported.
C13_UnimplementedIsError ==
  \A id \in Ids : \A k \in 1..Len(Results(id)) :
    Results(id)[k].action \in UnimplementedActions =>
      /\ ~ Results(id)[k].success
      /\ Results(id)[k].error # "None"

\* ------------------------------------------------------------------- C14
Drained(id) ==
  id \in Ids /\ Status(id) \in {COMPLETED, FAILED} /\ InHistory(id)

\* C14: while the worker is running (start() called, stop() not called) and
\* every step action returns, every queued execution eventually reaches
\* COMPLETED or FAILED and is appended to the history.
C14_QueueDrains ==
  \A id \in 1..MaxExec : (_running /\ InQueue(id)) ~> Drained(id)

\* an execution that went through the queue of a running worker has ended
\* COMPLETED and is in the history
C14_Witness ==
  \E id \in Ids :
    /\ _running
    /\ ~ require_approval
    /\ Status(id) = COMPLETED
    /\ InHistory(id)

\* ======================================================= risk scorer claims
Known == DOMAIN profiles
FracLeq(x, y) == x[1] * y[2] <= y[1] * x[2]
Score(ip) == profiles[ip].current_risk_score
MaxOf(ip) == profiles[ip].max_risk_score

\* ------------------------------------------------------------------- C15
\* C15: for every asset profile, current_risk_score is in [0, 100] in every
\* reachable state, after any sequence of process_alert and apply_decay calls.
C15_ScoreInRange ==
  \A ip \in Known :
    /\ Score(ip)[2] > 0
    /\ Score(ip)[1] >= 0
    /\ Score(ip)[1] <= 100 * Score(ip)[2]

\* a profile whose raw score was above 100 holds exactly 100, and a profile
\* has been decayed to a score strictly between 0 and 100
C15_Witness ==
  /\ \E ip \in Known : Score(ip) = <<100, 1>>
  /\ \E ip \in Known : Score(ip)[1] > 0 /\ Score(ip)[1] < 100 * Score(ip)[2]
  /\ ndecays > 0

\* ------------------------------------------------------------------- C16
\* C16: for every asset profile, max_risk_score never decreases over any
\* sequence of process_alert and apply_decay calls, is never below
\* current_risk_score, and is left unchanged by apply_decay.
C16_MaxScore ==
  [][/\ \A ip \in DOMAIN profiles' :
          /\ FracLeq(profiles'[ip].current_risk_score, profiles'[ip].max_risk_score)
          /\ ip \in Known => FracLeq(MaxOf(ip), profiles'[ip].max_risk_score)
     /\ apply_decay => \A ip \in Known : profiles'[ip].max_risk_score = MaxOf(ip)]_vars

\* after old alerts have lost weight, a new alert has given a profile a score
\* below the maximum it keeps
C16_Witness ==
  \E ip \in Known :
    /\ profiles[ip].total_alerts = 2
    /\ profiles[ip].last_alert = now
    /\ FracLess(Score(ip), MaxOf(ip))
    /\ MaxOf(ip) = <<100, 1>>

\* ------------------------------------------------------------------- C17
\* the last alert of the profile is older than decay_interval
IdleLong(ip) ==
  profiles[ip].last_alert # 0 /\ now - profiles[ip].last_alert > decay_interval

\* no alert for ip arrives in this step
NoNewAlert(ip) == alert_history'[ip] = alert_history[ip]

\* C17 as claimed: an apply_decay call at a time when a profile's last alert is
\* older than decay_interval leaves its current_risk_score strictly lower than
\* before and not negative; between two alerts for an IP the score never
\* increases; a profile whose last alert is within decay_interval is unchanged.
C17_DecayStrictlyLower ==
  [][/\ apply_decay =>
          \A ip \in Known :
            IF IdleLong(ip)
              THEN /\ FracLess(profiles'[ip].current_risk_score, Score(ip))
                   /\ profiles'[ip].current_risk_score[1] >= 0
              ELSE profiles'[ip] = profiles[ip]
     /\ \A ip \in Known :
          NoNewAlert(ip) => FracLeq(profiles'[ip].current_risk_score, Score(ip))]_vars

\* C17 amended: an apply_decay call at a time when a profile's last alert is
\* older than decay_interval leaves a positive current_risk_score strictly
\* lower than before and not negative, and leaves a score of 0 at 0; between
\* two alerts for an IP the score never increases, whatever number of
\* apply_decay calls; a profile whose last alert is within decay_interval is
\* unchanged.
C17_Decay ==
  [][/\ apply_decay =>
          \A ip \in Known :
            IF IdleLong(ip)
              THEN /\ Score(ip)[1] > 0 =>
                        FracLess(profiles'[ip].current_risk_score, Score(ip))
                   /\ Score(ip)[1] = 0 => profiles'[ip].current_risk_score = Zero
                   /\ profiles'[ip].current_risk_score[1] >= 0
              ELSE profiles'[ip] = profiles[ip]
     /\ \A ip \in Known :
          NoNewAlert(ip) => FracLeq(profiles'[ip].current_risk_score, Score(ip))]_vars

\* two apply_decay calls after the only alert of a profile have left it a
\* positive score below the score the alert gave it
C17_Witness ==
  \E ip \in Known :
    /\ ndecays = 2
    /\ profiles[ip].total_alerts = 1
    /\ IdleLong(ip)
    /\ Score(ip)[1] > 0
    /\ FracLess(Score(ip), MaxOf(ip))

\* ------------------------------------------------------------------- C18
\* get_chains_for_ip does not raise in either update: process_alert returns
Returns(src_chains, dst_chains) == src_chains # "raise" /\ dst_chains # "raise"

\* the first event of an enabled scorer, with a source address
SingleEvent(alert) ==
  /\ scorer_enabled
  /\ nevents = 0
  /\ Known = {}
  /\ alert.source_ip # ""

\* type_weight x severity_weight x time_weight x 1.5 x category_multiplier x
\* exposure_multiplier for the source profile of an event that is just processed
SingleProduct(alert, profile) ==
  FracMul(FracMul(FracMul(FracMul(FracMul(ALERT_TYPE_WEIGHTS(alert.type),
                                          SEVERITY_WEIGHTS(alert.severity)),
                                  _get_time_weight(0)),
                          <<3, 2>>),
                  category_multipliers(profile.category)),
          exposure_multipliers(profile.exposure))

\* the events the claim gives numbers for: CRITICAL RANSOMWARE_DETECTED on an
\* UNKNOWN, INTERNAL_ONLY asset is 562.5, clamped to 100; an unknown type
\* weighs 5.0 and an unknown severity 1.0
SingleExamples(alert, profile, product) ==
  /\ (/\ alert.type = "RANSOMWARE_DETECTED"
      /\ alert.severity = "CRITICAL"
      /\ profile.category = "UNKNOWN"
      /\ profile.exposure = "INTERNAL_ONLY")
       => (product = <<1125, 2>> /\ profile.current_risk_score = <<100, 1>>)
  /\ (alert.type = "NEW_DETECTOR" /\ alert.severity = "INFO")
       => product = FracMul(FracMul(FracMul(<<5, 1>>, <<3, 2>>),
                                    category_multipliers(profile.category)),
                            exposure_multipliers(profile.exposure))

\* C18: after process_alert of a single event on a fresh scorer the source
\* profile's current_risk_score equals min(100, type_weight x severity_weight
\* x time_weight x 1.5 x category_multiplier x exposure_multiplier), with
\* unknown types weighing 5.0 and unknown severities 1.0; CRITICAL
\* RANSOMWARE_DETECTED on an UNKNOWN, INTERNAL_ONLY source is 562.5, clamped
\* to 100.
C18_SingleEvent ==
  [][\A alert \in RiskAlerts : \A src_chains, dst_chains \in KillChainResults :
       (/\ SingleEvent(alert)
        /\ RiskScorer_process_alert(alert, src_chains, dst_chains)) =>
         LET profile == profiles'[alert.source_ip]
             product == SingleProduct(alert, profile)
         IN /\ profile.current_risk_score = FracMin(<<100, 1>>, product)
            /\ SingleExamples(alert, profile, product)]_vars

\* what holds of the calls that return: the product of the claim times the
\* chain bonus, 1.3 when the kill-chain collaborator reports a chain for the
\* source and 1 otherwise
SingleEventOfReturningCalls ==
  [][\A alert \in RiskAlerts : \A src_chains, dst_chains \in KillChainResults :
       (/\ SingleEvent(alert)
        /\ Returns(src_chains, dst_chains)
        /\ RiskScorer_process_alert(alert, src_chains, dst_chains)) =>
         LET profile == profiles'[alert.source_ip]
             product == SingleProduct(alert, profile)
             bonus   == IF src_chains = "chains" THEN <<13, 10>> ELSE <<1, 1>>
         IN /\ profile.current_risk_score =
                 FracMin(<<100, 1>>, FracMul(product, bonus))
            /\ SingleExamples(alert, profile, product)]_vars

\* the single event PORT_SCAN/LOW of an asset in a reported chain: 5 x 1 x 1
\* x 1.5 x 1.3 = 9.75
SingleEventWithBonus ==
  /\ nevents = 1
  /\ Known = {"10.0.0.1"}
  /\ profiles["10.0.0.1"].attack_chain_count = 1
  /\ profiles["10.0.0.1"].total_alerts = 1
  /\ Score("10.0.0.1") = <<39, 4>>

\* ------------------------------------------------------------------- C19
TotalAlerts(ip) == IF ip \in Known THEN profiles[ip].total_alerts ELSE 0
WasVictim(ip) == IF ip \in Known THEN profiles[ip].is_victim ELSE FALSE

\* this step adds exactly one record of the alert, in the given role, to the
\* history of ip and raises total_alerts of its profile by one
AddsOneRecord(ip, alert, is_source) ==
  LET before == alert_history[ip]
      after  == alert_history'[ip]
  IN /\ Len(after) = Len(before) + 1
     /\ SubSeq(after, 1, Len(before)) = before
     /\ after[Len(after)].is_source = is_source
     /\ after[Len(after)].alert_type = alert.type
     /\ after[Len(after)].source_ip = alert.source_ip
     /\ after[Len(after)].destination_ip = alert.destination_ip
     /\ ip \in DOMAIN profiles'
     /\ profiles'[ip].total_alerts = TotalAlerts(ip) + 1

\* this step leaves everything the scorer holds about ip as it is
Untouched(ip) ==
  /\ alert_history'[ip] = alert_history[ip]
  /\ score_history'[ip] = score_history[ip]
  /\ (ip \in DOMAIN profiles') = (ip \in Known)
  /\ ip \in Known => profiles'[ip] = profiles[ip]

\* what process_alert does to the profiles of an event with source s and
\* destination d according to the claim
FrameOf(alert) ==
  LET s == alert.source_ip
      d == alert.destination_ip
  IN /\ s # "" => (AddsOneRecord(s, alert, TRUE) /\ profiles'[s].is_attacker)
     /\ (d # "" /\ d # s) =>
          (AddsOneRecord(d, alert, FALSE) /\ profiles'[d].is_victim)
     /\ (d = s /\ s # "") => profiles'[s].is_victim = WasVictim(s)
     /\ Untouched("")
     /\ "" \notin DOMAIN profiles'
     /\ \A ip \in RiskAddrs \ {s, d} : Untouched(ip)

\* C19: process_alert on an event with source IP s and destination IP d, d
\* different from s, adds exactly one alert record to s (attacker role,
\* is_attacker set) and exactly one to d (victim role, is_victim set) and
\* raises total_alerts of each by one; when d equals s exactly one record
\* (attacker role) is added and is_victim is not set by this event; an empty
\* source or destination IP creates no profile; the profiles of all other IPs
\* are unchanged.
C19_Frame ==
  [][\A alert \in RiskAlerts : \A src_chains, dst_chains \in KillChainResults :
       (/\ scorer_enabled
        /\ RiskScorer_process_alert(alert, src_chains, dst_chains)) =>
         FrameOf(alert)]_vars

\* what holds of the calls that return
FrameOfReturningCalls ==
  [][\A alert \in RiskAlerts : \A src_chains, dst_chains \in KillChainResults :
       (/\ scorer_enabled
        /\ Returns(src_chains, dst_chains)
        /\ RiskScorer_process_alert(alert, src_chains, dst_chains)) =>
         FrameOf(alert)]_vars

\* one event between two assets has made the source an attacker and the
\* destination a victim, with one alert each, and a later event of the source
\* on itself has added one alert to the source only
FrameOfTwoEvents ==
  /\ nevents = 2
  /\ Known = {"10.0.0.1", "10.0.0.2"}
  /\ profiles["10.0.0.1"].is_attacker /\ ~ profiles["10.0.0.1"].is_victim
  /\ profiles["10.0.0.2"].is_victim /\ ~ profiles["10.0.0.2"].is_attacker
  /\ profiles["10.0.0.1"].total_alerts = 2
  /\ Len(alert_history["10.0.0.1"]) = 2
  /\ profiles["10.0.0.2"].total_alerts = 1

\* ------------------------------------------------------------------- C20
\* the samples of ip, oldest first; the 5 most recent ones and the older ones
Samples(ip) == score_history[ip]
RecentSamples(ip) ==
  [k \in 1..(IF Len(Samples(ip)) < 5 THEN Len(Samples(ip)) ELSE 5) |->
     Samples(ip)[Len(Samples(ip)) - (IF Len(Samples(ip)) < 5 THEN Len(Samples(ip)) ELSE 5) + k]]
OlderSamples(ip) ==
  [k \in 1..(IF Len(Samples(ip)) < 5 THEN 0 ELSE Len(Samples(ip)) - 5) |->
     Samples(ip)[k]]

\* mean(a) * den > mean(b) * num, for non-empty a and b: the mean of a is
\* more than the fraction num/den of the mean of b
MeanAbove(a, b, num, den) ==
  LET sa == FracSum(a)
      sb == FracSum(b)
  IN sa[1] * sb[2] * Len(b) * den > sb[1] * sa[2] * Len(a) * num

\* the trend the claim gives for the samples of ip
ClaimedTrend(ip) ==
  IF Len(Samples(ip)) < 3 \/ Len(OlderSamples(ip)) = 0 THEN "stable"
  ELSE IF MeanAbove(RecentSamples(ip), OlderSamples(ip), 12, 10) THEN "increasing"
  ELSE IF MeanAbove(OlderSamples(ip), RecentSamples(ip), 10, 8) THEN "decreasing"
  ELSE "stable"

C20_WitnessIncreasing ==
  \E ip \in Known :
    /\ Len(Samples(ip)) = 6
    /\ profiles[ip].risk_trend = "increasing"

\* six samples whose recent mean is exactly 20% below the first: stable
C20_WitnessMargin ==
  \E ip \in Known :
    /\ Samples(ip) = << <<100, 1>>, <<255, 4>>, <<285, 4>>, <<315, 4>>,
                        <<345, 4>>, <<100, 1>> >>
    /\ profiles[ip].risk_trend = "stable"

\* ------------------------------------------------------------------- C21
\* this step recomputes the score of ip from its alerts, without chain bonus,
\* and updates its trend: a new score sample that is the stored score
Rescored(ip) ==
  /\ ip \in DOMAIN profiles'
  /\ Len(score_history'[ip]) = Len(score_history[ip]) + 1
  /\ score_history'[ip][Len(score_history'[ip])] = profiles'[ip].current_risk_score
  /\ profiles'[ip].current_risk_score =
       FracMin(<<100, 1>>,
               FracMul(FracMul(AlertSum(alert_history'[ip]),
                               category_multipliers(profiles'[ip].category)),
                       exposure_multipliers(profiles'[ip].exposure)))

\* C21: if get_chains_for_ip raises during process_alert, both the source and
\* the destination profile are fully updated (alert recorded, score recomputed
\* without chain bonus, trend updated): no profile is left with a recorded
\* alert but a stale score, and the destination is updated.
C21_CollaboratorFailure ==
  [][\A alert \in RiskAlerts : \A src_chains, dst_chains \in KillChainResults :
       (/\ scorer_enabled
        /\ ~ Returns(src_chains, dst_chains)
        /\ RiskScorer_process_alert(alert, src_chains, dst_chains)) =>
         LET s == alert.source_ip
             d == alert.destination_ip
         IN /\ s # "" => AddsOneRecord(s, alert, TRUE)
            /\ (s # "" /\ src_chains = "raise") => Rescored(s)
            /\ (d # "" /\ d # s) => AddsOneRecord(d, alert, FALSE)
            /\ (d # "" /\ d # s /\ dst_chains = "raise") => Rescored(d)]_vars

\* =========================================== concurrent _update_profile calls
\* the alert types of the records that the concurrent calls carry
UpdateAlertTypes == {"PORT_SCAN", "BRUTE_FORCE"}

\* the fields of a new AssetRiskProfile that _update_profile reads before it
\* writes them
NewProfile == [total_alerts |-> 0, alert_types |-> [t \in UpdateAlertTypes |-> 0]]

\* what a step of _update_profile leaves alone
UpdateFrame ==
  UNCHANGED <<engine_vars, now, nticks, risk_vars, api_call, parser_vars,
              decoder_vars>>

UpdateAt(c, pc) == update_call[c].pc = pc
UpdateGoto(c, pc) == update_call' = [update_call EXCEPT ![c].pc = pc]

\* a thread enters _update_profile(ip, alert_record)
update_enter(c, t) ==
  /\ UpdateAt(c, "idle")
  /\ UpdateFrame
  /\ update_call' = [update_call EXCEPT ![c].pc = "test", ![c].alert_type = t]
  /\ UNCHANGED <<profile_objects, profiles_ref, history_deque>>

\* if ip not in self.profiles:
update_test(c) ==
  /\ UpdateAt(c, "test")
  /\ UpdateFrame
  /\ UpdateGoto(c, IF profiles_ref = 0 THEN "create" ELSE "load")
  /\ UNCHANGED <<profile_objects, profiles_ref, history_deque>>

\* self.profiles[ip] = self._create_profile(ip)
update_create(c) ==
  /\ UpdateAt(c, "create")
  /\ UpdateFrame
  /\ profile_objects' = Append(profile_objects, NewProfile)
  /\ profiles_ref' = Len(profile_objects) + 1
  /\ UpdateGoto(c, "load")
  /\ UNCHANGED history_deque

\* profile = self.profiles[ip]
update_load(c) ==
  /\ UpdateAt(c, "load")
  /\ UpdateFrame
  /\ update_call' = [update_call EXCEPT ![c].pc = "append", ![c].profile = profiles_ref]
  /\ UNCHANGED <<profile_objects, profiles_ref, history_deque>>

\* self.alert_history[ip].append(alert_record)
update_append(c) ==
  /\ UpdateAt(c, "append")
  /\ UpdateFrame
  /\ history_deque' = Append(history_deque, update_call[c].alert_type)
  /\ UpdateGoto(c, "read_total")
  /\ UNCHANGED <<profile_objects, profiles_ref>>

\* profile.total_alerts += 1: the load of the attribute
update_read_total(c) ==
  /\ UpdateAt(c, "read_total")
  /\ UpdateFrame
  /\ update_call' = [update_call EXCEPT
                       ![c].pc = "write_total",
                       ![c].read = profile_objects[update_call[c].profile].total_alerts]
  /\ UNCHANGED <<profile_objects, profiles_ref, history_deque>>

\* profile.total_alerts += 1: the store of the attribute
update_write_total(c) ==
  /\ UpdateAt(c, "write_total")
  /\ UpdateFrame
  /\ profile_objects' = [profile_objects EXCEPT
                           ![update_call[c].profile].total_alerts = update_call[c].read + 1]
  /\ UpdateGoto(c, "read_type")
  /\ UNCHANGED <<profiles_ref, history_deque>>

\* profile.alert_types.get(alert_type, 0)
update_read_type(c) ==
  /\ UpdateAt(c, "read_type")
  /\ UpdateFrame
  /\ update_call' = [update_call EXCEPT
                       ![c].pc = "write_type",
                       ![c].read = profile_objects[update_call[c].profile]
                                     .alert_types[update_call[c].alert_type]]
  /\ UNCHANGED <<profile_objects, profiles_ref, history_deque>>

\* profile.alert_types[alert_type] = ... + 1; what follows writes no counter
update_write_type(c) ==
  /\ UpdateAt(c, "write_type")
  /\ UpdateFrame
  /\ profile_objects' = [profile_objects EXCEPT
                           ![update_call[c].profile].alert_types[update_call[c].alert_type] =
                              update_call[c].read + 1]
  /\ UpdateGoto(c, "done")
  /\ UNCHANGED <<profiles_ref, history_deque>>

\* the sequential scorer stays as constructed
ScorerIdle ==
  /\ scorer_enabled = TRUE
  /\ kill_chain = FALSE
  /\ RiskScorerFresh

UpdateInit ==
  /\ EngineIdle
  /\ ScorerIdle
  /\ AuxFresh

NextUpdate ==
  \E c \in Callers :
    \/ \E t \in UpdateAlertTypes : update_enter(c, t)
    \/ update_test(c)
    \/ update_create(c)
    \/ update_load(c)
    \/ update_append(c)
    \/ update_read_total(c)
    \/ update_write_total(c)
    \/ update_read_type(c)
    \/ update_write_type(c)

SpecUpdate == UpdateInit /\ [][NextUpdate]_vars

\* ------------------------------------------------------------------- C22
AllUpdatesDone == \A c \in Callers : UpdateAt(c, "done")
TheProfile == profile_objects[profiles_ref]

\* C22: when the process_alert calls that reference one IP run concurrently
\* and all have returned, exactly one profile exists for the IP, its
\* total_alerts and its alert-type histogram count every event, and the alert
\* history holds one record per event.
C22_NoLostUpdate ==
  AllUpdatesDone =>
    /\ profiles_ref # 0
    /\ TheProfile.total_alerts = Cardinality(Callers)
    /\ \A t \in UpdateAlertTypes :
         TheProfile.alert_types[t] =
           Cardinality({c \in Callers : update_call[c].alert_type = t})
    /\ Len(history_deque) = Cardinality(Callers)

\* the history alone is never short of a record
HistoryComplete == AllUpdatesDone => Len(history_deque) = Cardinality(Callers)

\* ------------------------------------------------------------------- C28
\* results[k] is the outcome of step k of the playbook
OutcomeOfStep(id, k) ==
  LET step == Steps(id)[k]
      r    == Results(id)[k]
  IN /\ r.action = step.action
     /\ (step.action # "block_ip" \/ Raises(step)) => r = _execute_step(step)
     /\ (step.action = "block_ip" /\ ~ Raises(step)) =>
          LET ip == execution[id].trigger_alert.source_ip
          IN r.details \in {CapExceededDetails, DryRunDetails(ip), BlockedDetails(ip)}

\* C28: the results of an execution are the outcomes of a prefix of the steps
\* of its playbook, in order; steps_completed is the number of results and at
\* most steps_total; a COMPLETED execution has steps_completed = steps_total.
C28_ResultsPrefix ==
  \A id \in Ids :
    /\ execution[id].steps_completed = Len(Results(id))
    /\ execution[id].steps_completed <= execution[id].steps_total
    /\ execution[id].steps_total = Len(Steps(id))
    /\ \A k \in 1..Len(Results(id)) : OutcomeOfStep(id, k)
    /\ Status(id) = COMPLETED =>
         execution[id].steps_completed = execution[id].steps_total

\* one execution stopped after its second step, another ran all its steps
C28_Witness ==
  \E id, id2 \in Ids :
    /\ Status(id) = FAILED
    /\ Len(Results(id)) = 2
    /\ execution[id].steps_total = 3
    /\ Status(id2) = COMPLETED
    /\ Len(Results(id2)) = 3

\* ================================ concurrent approve / reject calls (API)
ApiOps == {"approve_execution", "reject_execution"}

\* what a step of an approve_execution / reject_execution call leaves alone
ApiFrame ==
  UNCHANGED <<config, now, nticks, cooldowns, blocks_this_hour, _running,
              _worker_thread, thread, joining, returned, risk_vars, update_vars,
              parser_vars, decoder_vars>>

\* a thread enters approve_execution(execution_id) or
\* reject_execution(execution_id)
call_enter(c, op, execution_id) ==
  /\ api_call[c].pc = "idle"
  /\ ApiFrame
  /\ api_call' = [api_call EXCEPT ![c] = [pc |-> "test", op |-> op,
                                         execution_id |-> execution_id,
                                         returned |-> "none"]]
  /\ UNCHANGED <<pending_approvals, execution, execution_queue, executions>>

\* if execution_id not in self.pending_approvals: return False
call_test(c) ==
  /\ api_call[c].pc = "test"
  /\ ApiFrame
  /\ api_call' = IF api_call[c].execution_id \notin pending_approvals
                   THEN [api_call EXCEPT ![c].pc = "done", ![c].returned = "False"]
                   ELSE [api_call EXCEPT ![c].pc = "pop"]
  /\ UNCHANGED <<pending_approvals, execution, execution_queue, executions>>

\* pending = self.pending_approvals.pop(execution_id): KeyError leaves the
\* call when the key is gone
call_pop(c) ==
  /\ api_call[c].pc = "pop"
  /\ ApiFrame
  /\ IF api_call[c].execution_id \in pending_approvals
       THEN /\ pending_approvals' = pending_approvals \ {api_call[c].execution_id}
            /\ api_call' = [api_call EXCEPT ![c].pc = "effect"]
       ELSE /\ UNCHANGED pending_approvals
            /\ api_call' = [api_call EXCEPT ![c].pc = "done", ![c].returned = "KeyError"]
  /\ UNCHANGED <<execution, execution_queue, executions>>

\* the rest of the call: the queue put, or the SKIPPED mark and the history
\* append; return True
call_effect(c) ==
  /\ api_call[c].pc = "effect"
  /\ ApiFrame
  /\ LET execution_id == api_call[c].execution_id
     IN IF api_call[c].op = "approve_execution"
          THEN /\ execution_queue' = Append(execution_queue, execution_id)
               /\ UNCHANGED <<execution, executions>>
          ELSE /\ execution' = [execution EXCEPT ![execution_id].status = SKIPPED]
               /\ executions' = DequeAppend(executions, execution_id, ExecutionsMaxLen)
               /\ UNCHANGED execution_queue
  /\ api_call' = [api_call EXCEPT ![c].pc = "done", ![c].returned = "True"]
  /\ UNCHANGED pending_approvals

\* an engine that holds every execution for approval, not started
ApprovalInit ==
  /\ EngineIdle
  /\ ScorerIdle
  /\ AuxFresh

NextApproval ==
  \/ \E alert \in Alerts : process_alert(alert)
  \/ \E c \in Callers :
       \/ \E op \in ApiOps : \E execution_id \in Ids : call_enter(c, op, execution_id)
       \/ call_test(c)
       \/ call_pop(c)
       \/ call_effect(c)

SpecApproval == ApprovalInit /\ [][NextApproval]_vars

\* ------------------------------------------------------------------- C29
CallsOn(id) == {c \in Callers : api_call[c].pc # "idle" /\ api_call[c].execution_id = id}

\* C29: of the concurrent approve_execution / reject_execution calls on one
\* pending execution id exactly one takes effect: the execution is queued
\* once or marked SKIPPED, never both and never queued twice, and every
\* losing call returns false instead of raising.
C29_OneTakesEffect ==
  \A id \in Ids :
    /\ Occurrences(execution_queue, id) <= 1
    /\ ~ (InQueue(id) /\ Status(id) = SKIPPED)
    /\ Cardinality({c \in CallsOn(id) : api_call[c].returned = "True"}) <= 1
    /\ \A c \in CallsOn(id) : api_call[c].returned # "KeyError"
    /\ (CallsOn(id) # {} /\ \A c \in CallsOn(id) : api_call[c].pc = "done") =>
         /\ Cardinality({c \in CallsOn(id) : api_call[c].returned = "True"}) = 1
         /\ InQueue(id) \/ Status(id) = SKIPPED

\* the effects alone: one winner, one effect, whatever the loser gets
OneEffect ==
  \A id \in Ids :
    /\ Occurrences(execution_queue, id) <= 1
    /\ ~ (InQueue(id) /\ Status(id) = SKIPPED)
    /\ Cardinality({c \in CallsOn(id) : api_call[c].returned = "True"}) <= 1

\* ------------------------------------------------------------------- C30
\* the score of ip when its last alert was scored
ScoreAtLastAlert(ip) == Samples(ip)[Len(Samples(ip))]

\* the current score of ip is what one apply_decay call at this instant makes
\* of the score at the last alert
DecayedOnce(ip) ==
  /\ IdleLong(ip)
  /\ Samples(ip) # << >>
  /\ Score(ip) = FracMul(ScoreAtLastAlert(ip),
                          DecayFactor(now - profiles[ip].last_alert))

\* C30: between two alerts the decayed score of a profile depends only on its
\* score at the last alert and on the idle time: an apply_decay call on a
\* score that is already decayed for this instant leaves current_risk_score
\* as it is (calling apply_decay twice at the same instant is the same as
\* calling it once).
C30_DecayOnce ==
  [][\A ip \in Known :
       (apply_decay /\ DecayedOnce(ip)) => profiles'[ip].current_risk_score = Score(ip)]_vars

\* ================================================= decoders: common parts
\* A payload is a sequence of bytes (0..255); Python offsets count from 0.
\* The payloads of this model carry no text: the detectors that search the
\* payload for names (shares, files, LDAP attributes, bases and filters) find
\* nothing in them and are left out.
Zeros(n) == [k \in 1..n |-> 0]

\* data[a:b] for 0 <= a
Slice(data, a, b) ==
  IF a >= Len(data) \/ b <= a
    THEN << >>
    ELSE SubSeq(data, a + 1, IF b < Len(data) THEN b ELSE Len(data))

\* what a read that raises (IndexError, struct.error) yields
Raise == -1

\* data[i]
At(data, i) == IF i < Len(data) THEN data[i + 1] ELSE Raise

\* struct.unpack('<H', data[off:off+2])[0] and struct.unpack('>H', ...)[0]
U16LE(data, off) ==
  IF off + 2 <= Len(data) THEN data[off + 1] + 256 * data[off + 2] ELSE Raise
U16BE(data, off) ==
  IF off + 2 <= Len(data) THEN 256 * data[off + 1] + data[off + 2] ELSE Raise

RECURSIVE FromBytes(_)
\* int.from_bytes(b, 'big')
FromBytes(b) ==
  IF b = << >> THEN 0 ELSE 256 * FromBytes(SubSeq(b, 1, Len(b) - 1)) + b[Len(b)]

\* F(x), with x evaluated once
Bind(x, F(_)) == CHOOSE y \in {F(v) : v \in {x}} : TRUE

\* a try block whose handler lets the exception through
try_reraise(r, handled) == r

\* try: r  except Exception: handled
try_except(r, handled) == IF r.exc THEN handled ELSE r

\* a threat dictionary; details holds what is read from the payload
Threat(type, severity, src_ip, dst_ip, details) ==
  [type |-> type, severity |-> severity, source_ip |-> src_ip,
   destination_ip |-> dst_ip, details |-> details]

\* deque(maxlen).append
Tracked(d, x, maxlen) == IF Len(d) >= maxlen THEN Append(Tail(d), x) ELSE Append(d, x)

\* ====================================== the protocol parser (SMB / LDAP)
SMB1_SIGNATURE == <<255, 83, 77, 66>>
SMB2_SIGNATURE == <<254, 83, 77, 66>>
SMB_PORTS == {445, 139}
LDAP_PORTS == {389, 636, 3268, 3269}
SMB2_TREE_CONNECT == 3
SMB2_CREATE == 5
SMB2_QUERY_DIRECTORY == 14
SEARCH_REQUEST == 3
Smb2HeaderLen == 64
Smb1HeaderLen == 32
EnumWindow == 60
EnumThreshold == 20
TrackerMaxLen == 200
PatternMinCommands == 5
PatternRecentCommands == 20
PatternCreates == 10

\* the maps of the parser as one value
ParserState ==
  [smb_sessions |-> smb_sessions, ldap_sessions |-> ldap_sessions,
   smb_enum_tracker |-> smb_enum_tracker,
   ldap_query_tracker |-> ldap_query_tracker, last_packet |-> last_packet]

\* the result of a parsing method: the state it leaves, the threats it
\* returns, and whether an exception leaves it
Returned(st, found) == [st |-> st, threats |-> found, exc |-> FALSE]
Raised(st) == [st |-> st, threats |-> << >>, exc |-> TRUE]

\* the number of entries of a tracker that are inside the window
Recent(times, current_time) ==
  Cardinality({k \in 1..Len(times) : times[k] >= current_time - EnumWindow})

\* _detect_smb_enumeration, after the append
_detect_smb_enumeration(times, src_ip, dst_ip, current_time) ==
  IF Recent(times, current_time) >= EnumThreshold
    THEN << Threat("SMB_ENUMERATION", "MEDIUM", src_ip, dst_ip,
                   [query_count |-> Recent(times, current_time)]) >>
    ELSE << >>

\* _detect_smb_attack_pattern
_detect_smb_attack_pattern(commands, src_ip, dst_ip) ==
  LET n      == Len(commands)
      first  == IF n > PatternRecentCommands THEN n - PatternRecentCommands + 1 ELSE 1
      count(c) == Cardinality({k \in first..n : commands[k][2] = c})
  IN IF n >= PatternMinCommands
        /\ count(SMB2_TREE_CONNECT) >= PatternMinCommands
        /\ count(SMB2_CREATE) >= PatternCreates
       THEN << Threat("SMB_LATERAL_MOVEMENT_PATTERN", "HIGH", src_ip, dst_ip,
                      [tree_connects |-> count(SMB2_TREE_CONNECT),
                       file_creates |-> count(SMB2_CREATE)]) >>
       ELSE << >>

\* _parse_smb2 (its body is one try block; no read of it can raise after the
\* length test)
_parse_smb2(st, data, src_ip, dst_ip, offset, current_time) ==
  LET key      == SessionKey(src_ip, dst_ip)
      command  == U16LE(data, offset + 12)
      old      == IF key \in DOMAIN st.smb_sessions THEN st.smb_sessions[key] ELSE << >>
      commands == Append(old, <<current_time, command>>)
      times    == IF command = SMB2_QUERY_DIRECTORY
                    THEN Tracked(st.smb_enum_tracker[src_ip], current_time, TrackerMaxLen)
                    ELSE st.smb_enum_tracker[src_ip]
      st1      == [st EXCEPT
                     !.smb_sessions = [k \in DOMAIN st.smb_sessions \cup {key} |->
                                         IF k = key THEN commands ELSE st.smb_sessions[k]],
                     !.smb_enum_tracker = [@ EXCEPT ![src_ip] = times],
                     !.last_packet = [k \in DOMAIN st.last_packet \cup {<<"smb", key>>} |->
                                        IF k = <<"smb", key>> THEN current_time
                                        ELSE st.last_packet[k]]]
  IN IF Len(data) < offset + Smb2HeaderLen \/ Slice(data, offset, offset + 4) # SMB2_SIGNATURE
       THEN Returned(st, << >>)
       ELSE try_except(
              IF command = Raise THEN Raised(st)
              ELSE Returned(st1,
                     (IF command = SMB2_QUERY_DIRECTORY
                        THEN _detect_smb_enumeration(times, src_ip, dst_ip, current_time)
                        ELSE << >>)
                     \o _detect_smb_attack_pattern(commands, src_ip, dst_ip)),
              Returned(st, << >>))

\* _parse_smb1 (flag_smb1 is not configured: True)
_parse_smb1(st, data, src_ip, dst_ip, offset) ==
  IF Len(data) < offset + Smb1HeaderLen \/ Slice(data, offset, offset + 4) # SMB1_SIGNATURE
    THEN Returned(st, << >>)
    ELSE try_except(
           IF At(data, offset + 4) = Raise THEN Raised(st)
           ELSE Returned(st, << Threat("SMB1_USAGE_DETECTED", "LOW", src_ip, dst_ip,
                                       [command |-> At(data, offset + 4)]) >>),
           Returned(st, << >>))

\* _analyze_smb
_analyze_smb(st, data, src_ip, dst_ip, current_time) ==
  IF Len(data) < 8 THEN Returned(st, << >>)
  ELSE try_except(
         CASE Slice(data, 4, 8) = SMB2_SIGNATURE ->
                _parse_smb2(st, data, src_ip, dst_ip, 4, current_time)
           [] Slice(data, 4, 8) = SMB1_SIGNATURE ->
                _parse_smb1(st, data, src_ip, dst_ip, 4)
           [] Slice(data, 0, 4) = SMB2_SIGNATURE ->
                _parse_smb2(st, data, src_ip, dst_ip, 0, current_time)
           [] Slice(data, 0, 4) = SMB1_SIGNATURE ->
                _parse_smb1(st, data, src_ip, dst_ip, 0)
           [] OTHER -> Returned(st, << >>),
         Returned(st, << >>))

\* _parse_ber_length: length is meaningful unless none
BerLength(none, length, offset) == [none |-> none, length |-> length, offset |-> offset]

_parse_ber_length(data, offset) ==
  IF offset >= Len(data) THEN BerLength(TRUE, 0, offset)
  ELSE LET length_byte == data[offset + 1]
           num_octets  == length_byte % 128
       IN IF length_byte < 128
            THEN BerLength(FALSE, length_byte, offset + 1)
            ELSE IF num_octets = 0 \/ offset + 1 + num_octets > Len(data)
              THEN BerLength(TRUE, 0, offset + 1)
              ELSE BerLength(FALSE,
                             FromBytes(Slice(data, offset + 1, offset + 1 + num_octets)),
                             offset + 1 + num_octets)

\* what _parse_ldap_message returns: None, or the operation of the message
NoMessage == [none |-> TRUE, exc |-> FALSE, operation |-> 0]

\* _parse_ldap_message; the message id and the fields of a search request are
\* not used by what follows
_parse_ldap_message(data) ==
  LET l1     == _parse_ber_length(data, 1)
      tag    == At(data, l1.offset)
      l2     == _parse_ber_length(data, l1.offset + 1)
      offset == IF l2.none \/ l2.length = 0 THEN l2.offset ELSE l2.offset + l2.length
      op_tag == At(data, offset)
  IN try_except(
       IF At(data, 0) = Raise THEN [none |-> FALSE, exc |-> TRUE, operation |-> 0]
       ELSE IF At(data, 0) # 48 \/ l1.none THEN NoMessage
       ELSE IF tag = Raise THEN [none |-> FALSE, exc |-> TRUE, operation |-> 0]
       ELSE IF tag # 2 \/ offset >= Len(data) THEN NoMessage
       ELSE [none |-> FALSE, exc |-> FALSE, operation |-> op_tag % 32],
       NoMessage)

\* _detect_ldap_enumeration
_detect_ldap_enumeration(times, src_ip, dst_ip, current_time) ==
  IF Recent(times, current_time) >= EnumThreshold
    THEN << Threat("LDAP_ENUMERATION", "MEDIUM", src_ip, dst_ip,
                   [query_count |-> Recent(times, current_time)]) >>
    ELSE << >>

\* _analyze_ldap
_analyze_ldap(st, data, src_ip, dst_ip, current_time) ==
  LET parsed     == _parse_ldap_message(data)
      key        == SessionKey(src_ip, dst_ip)
      old        == IF key \in DOMAIN st.ldap_sessions THEN st.ldap_sessions[key] ELSE << >>
      search     == parsed.operation = SEARCH_REQUEST
      operations == IF search THEN Append(old, current_time) ELSE old
      times      == IF search
                      THEN Tracked(st.ldap_query_tracker[src_ip], current_time, TrackerMaxLen)
                      ELSE st.ldap_query_tracker[src_ip]
      st1        == [st EXCEPT
                       !.ldap_sessions = [k \in DOMAIN st.ldap_sessions \cup {key} |->
                                            IF k = key THEN operations ELSE st.ldap_sessions[k]],
                       !.ldap_query_tracker = [@ EXCEPT ![src_ip] = times],
                       !.last_packet = [k \in DOMAIN st.last_packet \cup {<<"ldap", key>>} |->
                                          IF k = <<"ldap", key>> THEN current_time
                                          ELSE st.last_packet[k]]]
  IN IF Len(data) < 10 THEN Returned(st, << >>)
     ELSE try_except(
            IF parsed.exc THEN Raised(st)
            ELSE IF parsed.none THEN Returned(st, << >>)
            ELSE Returned(st1, IF search
                                 THEN _detect_ldap_enumeration(times, src_ip, dst_ip, current_time)
                                 ELSE << >>),
            Returned(st, << >>))

\* a TCP/IP packet; an empty load is a packet without Raw layer
Packet(src_ip, dst_ip, sport, dport, load) ==
  [src |-> src_ip, dst |-> dst_ip, sport |-> sport, dport |-> dport, load |-> load]

\* ProtocolParser.analyze_packet (enabled is not configured: True)
analyze_packet(st, packet, current_time) ==
  IF packet.load = << >> THEN Returned(st, << >>)
  ELSE Bind(IF packet.dport \in SMB_PORTS \/ packet.sport \in SMB_PORTS
              THEN _analyze_smb(st, packet.load, packet.src, packet.dst, current_time)
              ELSE Returned(st, << >>),
            LAMBDA smb :
              IF smb.exc THEN Raised(smb.st)
              ELSE Bind(IF packet.dport \in LDAP_PORTS \/ packet.sport \in LDAP_PORTS
                          THEN _analyze_ldap(smb.st, packet.load, packet.src, packet.dst,
                                             current_time)
                          ELSE Returned(smb.st, << >>),
                        LAMBDA ldap :
                          IF ldap.exc THEN Raised(ldap.st)
                          ELSE Returned(ldap.st, smb.threats \o ldap.threats)))

\* what a call of a decoder leaves alone
ParserFrame == UNCHANGED <<engine_vars, risk_vars, update_vars, api_call>>

\* the events of a list that have the type t
OfType(found, t) == Cardinality({k \in 1..Len(found) : found[k].type = t})

\* a call of ProtocolParser.analyze_packet at the time now
ProtocolParser_analyze_packet(packet) ==
  \E r \in {analyze_packet(ParserState, packet, now)} :
     /\ smb_sessions' = r.st.smb_sessions
     /\ ldap_sessions' = r.st.ldap_sessions
     /\ smb_enum_tracker' = r.st.smb_enum_tracker
     /\ ldap_query_tracker' = r.st.ldap_query_tracker
     /\ last_packet' = r.st.last_packet
     /\ threats' = r.threats
     /\ raised' = r.exc
     /\ threat_count' = [t \in EventTypes |-> threat_count[t] + OfType(r.threats, t)]
     /\ npackets' = npackets + 1
     /\ last_call' = [decoder |-> "ProtocolParser", packet |-> packet]
     /\ UNCHANGED <<sessions, tls_result, now, nticks>>
     /\ ParserFrame

\* the sessions that clear_old_data keeps: those without entries, and those
\* whose last entry is not older than the cutoff
Kept(table, last_time, cutoff) ==
  {key \in DOMAIN table : table[key] = << >> \/ ~ (last_time[key] < cutoff)}

\* ProtocolParser.clear_old_data
clear_old_data(max_age) ==
  LET cutoff == now - max_age
      smb    == Kept(smb_sessions,
                     [key \in DOMAIN smb_sessions |->
                        IF smb_sessions[key] = << >> THEN cutoff
                        ELSE smb_sessions[key][Len(smb_sessions[key])][1]],
                     cutoff)
      ldap   == Kept(ldap_sessions,
                     [key \in DOMAIN ldap_sessions |->
                        IF ldap_sessions[key] = << >> THEN cutoff
                        ELSE ldap_sessions[key][Len(ldap_sessions[key])]],
                     cutoff)
  IN /\ smb_sessions' = [key \in smb |-> smb_sessions[key]]
     /\ ldap_sessions' = [key \in ldap |-> ldap_sessions[key]]
     /\ UNCHANGED <<smb_enum_tracker, ldap_query_tracker, threats, raised,
                    threat_count, last_packet, npackets, now, nticks,
                    decoder_vars>>
     /\ ParserFrame

DefaultMaxAge == 3600
MaxAges == {EnumWindow, DefaultMaxAge}
ParserTickSteps == {1, EnumWindow + 1, DefaultMaxAge + 1}

\* time passes between two calls of the parser
ParserTick ==
  /\ nticks < MaxParserTicks
  /\ \E d \in ParserTickSteps : now' = now + d
  /\ nticks' = nticks + 1
  /\ UNCHANGED <<parser_vars, decoder_vars>>
  /\ ParserFrame

\* ------------------------------------------------ the packets of the model
\* an SMB2 request behind a NetBIOS header, an SMB1 request, an LDAP bind
\* request and an LDAP search request (empty base, present filter, no
\* attributes)
Smb2Payload(command) ==
  <<0, 0, 0, 64>> \o SMB2_SIGNATURE \o <<64, 0, 0, 0, 0, 0, 0, 0, command, 0>> \o Zeros(50)
Smb1Payload == <<0, 0, 0, 32>> \o SMB1_SIGNATURE \o <<114>> \o Zeros(27)
LdapBindPayload == <<48, 12, 2, 1, 1, 96, 7, 2, 1, 3, 4, 0, 128, 0>>
LdapSearchPayload ==
  <<48, 26, 2, 1, 2, 99, 21, 4, 0, 10, 1, 2, 10, 1, 0, 2, 1, 0, 2, 1, 0,
    1, 1, 0, 135, 0, 48, 0>>

QueryDirectoryPacket ==
  Packet("10.0.0.5", "10.0.0.9", 49152, 445, Smb2Payload(SMB2_QUERY_DIRECTORY))

ParserPackets ==
  {Packet(src_ip, dst_ip, 49152, 445, load) :
     src_ip \in Hosts, dst_ip \in {"10.0.0.9"},
     load \in {Smb2Payload(SMB2_QUERY_DIRECTORY), Smb2Payload(SMB2_CREATE), Smb1Payload}}
  \cup
  {Packet(src_ip, dst_ip, 49152, 389, load) :
     src_ip \in Hosts, dst_ip \in {"10.0.0.9"},
     load \in {LdapBindPayload, LdapSearchPayload}}

ParserInit ==
  /\ EngineIdle
  /\ ScorerIdle
  /\ AuxFresh

\* a few packets of every kind, maintenance, time
NextParser ==
  \/ /\ npackets < MaxParserPackets
     /\ \E packet \in ParserPackets : ProtocolParser_analyze_packet(packet)
  \/ \E max_age \in MaxAges : clear_old_data(max_age)
  \/ ParserTick

SpecParser == ParserInit /\ [][NextParser]_vars

\* a burst of directory queries of one source
NextBurst ==
  \/ /\ npackets < MaxBurst
     /\ ProtocolParser_analyze_packet(QueryDirectoryPacket)
  \/ ParserTick

SpecBurst == ParserInit /\ [][NextBurst]_vars

\* ------------------------------------------------------------------- C24
\* the directory queries of the source so far, all inside one window
BurstTimes == smb_enum_tracker[QueryDirectoryPacket.src]
InOneWindow == Recent(BurstTimes, now) = Len(BurstTimes)

\* C24: SMB2 QUERY_DIRECTORY packets of one source within 60 seconds yield no
\* SMB_ENUMERATION event while fewer than 20 have been seen, and exactly one
\* SMB_ENUMERATION event in total from the 20th on (a burst of 25 yields one
\* event, not one per packet).
C24_EnumerationOnce ==
  InOneWindow =>
    /\ Len(BurstTimes) < EnumThreshold => threat_count["SMB_ENUMERATION"] = 0
    /\ Len(BurstTimes) >= EnumThreshold => threat_count["SMB_ENUMERATION"] = 1

\* the part below the threshold
NoneBelowThreshold ==
  (InOneWindow /\ Len(BurstTimes) < EnumThreshold) => threat_count["SMB_ENUMERATION"] = 0

\* what the burst of 25 yields
SixOfTwentyFive ==
  (InOneWindow /\ Len(BurstTimes) = 25) => threat_count["SMB_ENUMERATION"] = 6

\* ------------------------------------------------------------------- C27
OlderThan(k, max_age) == last_packet[k] < now - max_age

\* C27: after clear_old_data(max_age) no SMB or LDAP session whose most
\* recent packet is older than max_age remains, whatever the session carried,
\* and every session with a more recent packet is retained.
C27_Purge ==
  [][\A max_age \in MaxAges :
       clear_old_data(max_age) =>
         /\ \A key \in DOMAIN smb_sessions :
              key \in DOMAIN smb_sessions' <=> ~ OlderThan(<<"smb", key>>, max_age)
         /\ \A key \in DOMAIN ldap_sessions :
              key \in DOMAIN ldap_sessions' <=> ~ OlderThan(<<"ldap", key>>, max_age)]_vars

\* the SMB half of the claim
SmbPurge ==
  [][\A max_age \in MaxAges :
       clear_old_data(max_age) =>
         \A key \in DOMAIN smb_sessions :
           key \in DOMAIN smb_sessions' <=> ~ OlderThan(<<"smb", key>>, max_age)]_vars

\* an old LDAP session is purged if it has searched
LdapPurgeOfSearches ==
  [][\A max_age \in MaxAges :
       clear_old_data(max_age) =>
         \A key \in DOMAIN ldap_sessions :
           (OlderThan(<<"ldap", key>>, max_age) /\ ldap_sessions[key] # << >>)
             => key \notin DOMAIN ldap_sessions']_vars
\* ================== the encrypted traffic analyzer (TLS handshake records)
\* text is kept as the sequence of its bytes
\* bytes.decode('utf-8', errors='ignore'): the payloads of the model carry no
\* multi-byte sequence, the bytes that are no ASCII are dropped
Decode(b) == SelectSeq(b, LAMBDA x : x < 128)
\* str.lower()
Lower(s) == [k \in 1..Len(s) |-> IF s[k] >= 65 /\ s[k] <= 90 THEN s[k] + 32 ELSE s[k]]
\* s.endswith(t), s.startswith(t), t in s, data.find(t)
EndsWith(s, t) == Len(t) <= Len(s) /\ SubSeq(s, Len(s) - Len(t) + 1, Len(s)) = t
StartsWith(s, t) == Len(t) <= Len(s) /\ SubSeq(s, 1, Len(t)) = t
Contains(s, t) == \E k \in 0..(Len(s) - Len(t)) : SubSeq(s, k + 1, k + Len(t)) = t
Find(data, t) ==
  LET at == {k \in 0..(Len(data) - Len(t)) : SubSeq(data, k + 1, k + Len(t)) = t}
  IN IF at = {} THEN -1 ELSE CHOOSE k \in at : \A j \in at : k <= j
Elements(s) == {s[k] : k \in 1..Len(s)}
Least(a, b) == IF a < b THEN a ELSE b

WEAK_CIPHERS == {0, 1, 2, 4, 5, 10, 47, 53, 3, 6, 8, 9, 17, 20, 23, 25}
STRONG_CIPHERS == {4865, 4866, 4867, 49195, 49196, 49199, 49200, 52392, 52393}
\* 0x0a0a, 0x1a1a, ..., 0xfafa
GREASE_VALUES == {2570 + 4112 * k : k \in 0..15}
\* the keys of CDN_PROVIDERS: cloudfront.net, cloudflare.com, akamaized.net,
\* azureedge.net, fastly.net, googleapis.com, googleusercontent.com
CDN_PROVIDERS ==
  {<<99, 108, 111, 117, 100, 102, 114, 111, 110, 116, 46, 110, 101, 116>>,
   <<99, 108, 111, 117, 100, 102, 108, 97, 114, 101, 46, 99, 111, 109>>,
   <<97, 107, 97, 109, 97, 105, 122, 101, 100, 46, 110, 101, 116>>,
   <<97, 122, 117, 114, 101, 101, 100, 103, 101, 46, 110, 101, 116>>,
   <<102, 97, 115, 116, 108, 121, 46, 110, 101, 116>>,
   <<103, 111, 111, 103, 108, 101, 97, 112, 105, 115, 46, 99, 111, 109>>,
   <<103, 111, 111, 103, 108, 101, 117, 115, 101, 114, 99, 111, 110, 116,
     101, 110, 116, 46, 99, 111, 109>>}
\* SSL 3.0, TLS 1.0, TLS 1.1
LEGACY_VERSIONS == {768, 769, 770}
EXT_SNI == 0
EXT_SUPPORTED_GROUPS == 10
EXT_EC_POINT_FORMATS == 11
EXT_SUPPORTED_VERSIONS == 43
EXT_ENCRYPTED_CLIENT_HELLO == 65037
EXT_ESNI == 65486
HANDSHAKE_CLIENT_HELLO == 1
HANDSHAKE_SERVER_HELLO == 2
HANDSHAKE_CERTIFICATE == 11
CONTENT_TYPE_HANDSHAKE == 22
HelloMinLen == 38

\* the 2-byte values of a list of n bytes at offset, as far as the data
\* reaches (the for loop with its break), the GREASE values removed
Suites(data, offset, n) ==
  LET count == Cardinality({i \in 0..(Least(n, Len(data) - offset) - 1) :
                              i % 2 = 0 /\ offset + i + 2 <= Len(data)})
  IN SelectSeq([k \in 1..count |-> U16BE(data, offset + 2 * (k - 1))],
               LAMBDA cs : cs \notin GREASE_VALUES)

\* _extract_sni; None is the empty name
_extract_sni(data) ==
  IF Len(data) < 5 \/ data[3] # 0 \/ 5 + U16BE(data, 3) > Len(data)
    THEN << >>
    ELSE Decode(Slice(data, 5, 5 + U16BE(data, 3)))

\* _extract_supported_versions
_extract_supported_versions(data) ==
  IF Len(data) < 1 THEN << >>
  ELSE LET last  == Least(data[1] + 1, Len(data)) - 1
           count == Cardinality({i \in 1..last : i % 2 = 1 /\ i + 2 <= Len(data)})
       IN SelectSeq([k \in 1..count |-> U16BE(data, 2 * k - 1)],
                    LAMBDA version : version \notin GREASE_VALUES)

\* data[offset:offset+ext_len] if offset + ext_len <= len(data) else b''
ExtData(data, offset, ext_len) ==
  IF offset + ext_len <= Len(data) THEN Slice(data, offset, offset + ext_len) ELSE << >>

RECURSIVE ClientExtensions(_, _, _, _)
\* the while loop over the extensions of a Client Hello; the ALPN protocols,
\* the key share groups and the list of extension types reach no event
ClientExtensions(data, offset, ext_end, result) ==
  IF offset + 4 <= ext_end /\ offset + 4 <= Len(data)
    THEN LET ext_type == U16BE(data, offset)
             ext_len  == U16BE(data, offset + 2)
             ext_data == ExtData(data, offset + 4, ext_len)
             next     ==
               CASE ext_type = EXT_SNI /\ ext_len > 5 ->
                      [result EXCEPT !.sni = _extract_sni(ext_data)]
                 [] ext_type = EXT_SUPPORTED_VERSIONS /\ ext_len > 1 ->
                      [result EXCEPT !.supported_versions =
                                        _extract_supported_versions(ext_data)]
                 [] ext_type = EXT_ESNI -> [result EXCEPT !.has_esni = TRUE]
                 [] ext_type = EXT_ENCRYPTED_CLIENT_HELLO -> [result EXCEPT !.has_ech = TRUE]
                 [] OTHER -> result
         IN ClientExtensions(data, offset + 4 + ext_len, ext_end, next)
    ELSE result

\* the result dictionary of _parse_client_hello_extended before the parse;
\* the version 0 is None
ClientHelloDefaults ==
  [cipher_suites |-> << >>, sni |-> << >>, has_esni |-> FALSE, has_ech |-> FALSE,
   supported_versions |-> << >>, tls_version |-> 0]

\* _parse_client_hello_extended; versions are kept as numbers
_parse_client_hello_extended(data) ==
  LET offset1 == 35 + data[35]
      cipher_suites_len == U16BE(data, offset1)
      with_suites == [ClientHelloDefaults EXCEPT
                        !.cipher_suites = Suites(data, offset1 + 2, cipher_suites_len)]
      offset2 == offset1 + 2 + cipher_suites_len
      offset3 == offset2 + 1 + data[offset2 + 1]
      walked  == IF offset3 + 2 <= Len(data)
                   THEN ClientExtensions(data, offset3 + 2,
                                         offset3 + 2 + U16BE(data, offset3), with_suites)
                   ELSE with_suites
      highest == CHOOSE v \in Elements(walked.supported_versions) :
                   \A w \in Elements(walked.supported_versions) : w <= v
  IN IF Len(data) < HelloMinLen \/ offset1 + 2 > Len(data) THEN ClientHelloDefaults
     ELSE IF offset2 + 1 > Len(data) THEN with_suites
     ELSE [walked EXCEPT !.tls_version = IF walked.supported_versions # << >>
                                           THEN highest ELSE U16BE(data, 0)]

RECURSIVE ServerExtensions(_, _, _, _)
\* the while loop over the extensions of a Server Hello;
\* struct.unpack('>H', ext_data) raises struct.error unless ext_data has 2 bytes
ServerExtensions(data, offset, ext_end, result) ==
  IF offset + 4 <= ext_end /\ offset + 4 <= Len(data)
    THEN LET ext_type == U16BE(data, offset)
             ext_len  == U16BE(data, offset + 2)
             ext_data == ExtData(data, offset + 4, ext_len)
         IN IF ext_type = EXT_SUPPORTED_VERSIONS /\ ext_len = 2
              THEN IF U16BE(ext_data, 0) = Raise
                     THEN [result EXCEPT !.exc = TRUE]
                     ELSE ServerExtensions(data, offset + 4 + ext_len, ext_end,
                            [result EXCEPT !.tls_version = U16BE(ext_data, 0)])
              ELSE ServerExtensions(data, offset + 4 + ext_len, ext_end, result)
    ELSE result

ServerHelloDefaults ==
  [cipher_suite |-> -1, is_weak_cipher |-> FALSE, tls_version |-> 0, exc |-> FALSE]

\* _parse_server_hello_extended
_parse_server_hello_extended(data) ==
  LET offset1 == 35 + data[35]
      chosen  == [ServerHelloDefaults EXCEPT
                    !.cipher_suite = U16BE(data, offset1),
                    !.is_weak_cipher = U16BE(data, offset1) \in WEAK_CIPHERS]
      offset2 == offset1 + 3
      walked  == IF offset2 + 2 <= Len(data)
                   THEN ServerExtensions(data, offset2 + 2,
                                         offset2 + 2 + U16BE(data, offset2), chosen)
                   ELSE chosen
  IN IF Len(data) < HelloMinLen \/ offset1 + 2 > Len(data) THEN ServerHelloDefaults
     ELSE IF walked.exc \/ walked.tls_version # 0 THEN walked
     ELSE [walked EXCEPT !.tls_version = U16BE(data, 0)]

\* _extract_cn: the name after the OID, two skipped bytes and a length byte
_extract_cn(data, oid) ==
  LET idx == Find(data, oid) + Len(oid) + 2
  IN IF Find(data, oid) = -1 \/ idx >= Len(data) THEN << >>
     ELSE IF idx + 1 + data[idx + 1] > Len(data) THEN << >>
     ELSE Decode(Slice(data, idx + 1, idx + 1 + data[idx + 1]))

RECURSIVE SanNames(_, _)
\* the while loop of _extract_san over the search area
SanNames(search_area, pos) ==
  IF pos < Len(search_area) - 2
    THEN IF search_area[pos + 1] = 130
           THEN LET length == search_area[pos + 2]
                    domain == Decode(Slice(search_area, pos + 2, pos + 2 + length))
                IN (IF pos + 2 + length <= Len(search_area)
                       /\ domain # << >> /\ 46 \in Elements(domain)
                      THEN << domain >> ELSE << >>)
                   \o SanNames(search_area, pos + 2 + length)
           ELSE SanNames(search_area, pos + 1)
    ELSE << >>

\* _extract_san
_extract_san(data) ==
  LET idx     == Find(data, <<85, 29, 17>>)
      domains == SanNames(Slice(data, idx, Least(idx + 500, Len(data))), 0)
  IN IF idx = -1 THEN << >> ELSE SubSeq(domains, 1, Least(20, Len(domains)))

\* _parse_certificate; no statement of its try block raises
_parse_certificate(cert_data, is_leaf) ==
  LET subject_cn == _extract_cn(cert_data, <<85, 4, 3>>)
      issuer_org == _extract_cn(cert_data, <<85, 4, 10>>)
  IN [subject_cn |-> subject_cn, issuer_org |-> issuer_org,
      is_self_signed |-> subject_cn # << >> /\ issuer_org # << >>
                         /\ Contains(Lower(issuer_org), Lower(subject_cn)),
      san_domains |-> _extract_san(cert_data), is_leaf |-> is_leaf]

RECURSIVE Certificates(_, _, _, _)
\* the while loop of _parse_certificate_message
Certificates(data, offset, certs_length, cert_index) ==
  IF offset + 3 < Len(data) /\ offset < 3 + certs_length
    THEN LET cert_length == FromBytes(Slice(data, offset, offset + 3))
         IN IF offset + 3 + cert_length > Len(data) THEN << >>
            ELSE << _parse_certificate(Slice(data, offset + 3, offset + 3 + cert_length),
                                       cert_index = 0) >>
                 \o Certificates(data, offset + 3 + cert_length, certs_length,
                                 cert_index + 1)
    ELSE << >>

\* _parse_certificate_message; has_expired is never set
_parse_certificate_message(data) ==
  LET certs == IF Len(data) < 3 THEN << >>
               ELSE Certificates(data, 3, FromBytes(Slice(data, 0, 3)), 0)
  IN [certificates |-> certs,
      has_self_signed |-> \E k \in 1..Len(certs) : certs[k].is_self_signed]

\* _parse_tls_handshake: None, or the type of the message and what its parser
\* found
NoHandshake == [type |-> "none", exc |-> FALSE]

_parse_tls_handshake(data) ==
  LET record_length  == U16BE(data, 3)
      handshake_data == Slice(data, 5, 5 + record_length)
      body           == Slice(handshake_data, 4, Len(handshake_data))
  IN IF Len(data) < 9 THEN NoHandshake
     ELSE IF data[1] # CONTENT_TYPE_HANDSHAKE \/ Len(data) < 5 + record_length
       THEN NoHandshake
     ELSE IF Len(handshake_data) < 4 THEN NoHandshake
     ELSE CASE handshake_data[1] = HANDSHAKE_CLIENT_HELLO ->
                 [type |-> "client_hello", exc |-> FALSE,
                  hello |-> _parse_client_hello_extended(body)]
            [] handshake_data[1] = HANDSHAKE_SERVER_HELLO ->
                 Bind(_parse_server_hello_extended(body),
                      LAMBDA hello : [type |-> "server_hello", exc |-> hello.exc,
                                      hello |-> hello])
            [] handshake_data[1] = HANDSHAKE_CERTIFICATE ->
                 [type |-> "certificate", exc |-> FALSE,
                  message |-> _parse_certificate_message(body)]
            [] OTHER -> NoHandshake

\* the key of a flow in self.sessions
FlowKey(a, b, port) == <<a, b, port>>

\* _analyze_client_hello (the detect_* switches are not configured: True):
\* the threats, and the session stored for the later correlation
_analyze_client_hello(flows, hello, src_ip, dst_ip, dst_port) ==
  LET weak_offered   == SelectSeq(hello.cipher_suites, LAMBDA cs : cs \in WEAK_CIPHERS)
      strong_offered == SelectSeq(hello.cipher_suites, LAMBDA cs : cs \in STRONG_CIPHERS)
      key            == FlowKey(src_ip, dst_ip, dst_port)
  IN Returned(
       [k \in DOMAIN flows \cup {key} |-> IF k = key THEN hello.sni ELSE flows[k]],
       (IF hello.has_esni
          THEN << Threat("ESNI_DETECTED", "LOW", src_ip, dst_ip,
                         [tls_version |-> hello.tls_version]) >>
          ELSE << >>)
       \o (IF hello.has_ech
             THEN << Threat("ECH_DETECTED", "LOW", src_ip, dst_ip,
                            [tls_version |-> hello.tls_version]) >>
             ELSE << >>)
       \o (IF weak_offered # << >> /\ strong_offered = << >>
             THEN << Threat("WEAK_CIPHERS_ONLY", "MEDIUM", src_ip, dst_ip,
                            [weak_ciphers |-> SubSeq(weak_offered, 1,
                                                     Least(5, Len(weak_offered))),
                             sni |-> hello.sni]) >>
             ELSE << >>)
       \o (IF hello.tls_version \in LEGACY_VERSIONS
             THEN << Threat("LEGACY_TLS_VERSION", "MEDIUM", src_ip, dst_ip,
                            [version |-> hello.tls_version, sni |-> hello.sni]) >>
             ELSE << >>))

\* _analyze_server_hello
_analyze_server_hello(hello, src_ip, dst_ip) ==
  IF hello.is_weak_cipher
    THEN << Threat("WEAK_CIPHER_NEGOTIATED", "HIGH", src_ip, dst_ip,
                   [cipher_id |-> hello.cipher_suite, tls_version |-> hello.tls_version]) >>
    ELSE << >>

\* the names of the certificates of a message, lower-cased
CertDomains(certs) ==
  {Lower(certs[k].subject_cn) : k \in {j \in 1..Len(certs) : certs[j].subject_cn # << >>}}
  \cup UNION {{Lower(san) : san \in Elements(certs[k].san_domains)} : k \in 1..Len(certs)}

\* the SNI matches a name of the certificates: equal, a subdomain of it, or
\* inside its wildcard
SniMatches(sni_lower, domain) ==
  \/ sni_lower = domain
  \/ EndsWith(sni_lower, <<46>> \o domain)
  \/ StartsWith(domain, <<42, 46>>) /\ EndsWith(sni_lower, Tail(domain))

\* _detect_domain_fronting
_detect_domain_fronting(flows, message, src_ip, dst_ip, src_port) ==
  LET cert_domains == CertDomains(message.certificates)
      key          == FlowKey(dst_ip, src_ip, src_port)
      sni          == IF key \in DOMAIN flows THEN flows[key] ELSE << >>
      is_cdn       == \E cdn \in CDN_PROVIDERS : Contains(Lower(sni), cdn)
  IN IF message.certificates = << >> \/ sni = << >> \/ cert_domains = {} THEN << >>
     ELSE IF \E domain \in cert_domains : SniMatches(Lower(sni), domain) THEN << >>
     ELSE << Threat("DOMAIN_FRONTING_SUSPECTED", IF is_cdn THEN "MEDIUM" ELSE "HIGH",
                    src_ip, dst_ip,
                    [sni |-> sni, cert_domains |-> cert_domains, is_cdn |-> is_cdn]) >>

\* _analyze_certificate
_analyze_certificate(flows, message, src_ip, dst_ip, src_port) ==
  (IF message.has_self_signed
     THEN << Threat("SELF_SIGNED_CERTIFICATE", "MEDIUM", src_ip, dst_ip,
                    [subject_cn |-> message.certificates[1].subject_cn,
                     san_domains |-> message.certificates[1].san_domains]) >>
     ELSE << >>)
  \o _detect_domain_fronting(flows, message, src_ip, dst_ip, src_port)

\* EncryptedTrafficAnalyzer.analyze_packet (enabled is not configured: True)
eta_analyze_packet(flows, packet) ==
  LET raw == packet.load
  IN IF raw = << >> THEN Returned(flows, << >>)
     ELSE IF Len(raw) < 6 \/ raw[1] # CONTENT_TYPE_HANDSHAKE THEN Returned(flows, << >>)
     ELSE try_except(
            Bind(_parse_tls_handshake(raw),
                 LAMBDA parsed :
                   CASE parsed.exc -> Raised(flows)
                     [] ~ parsed.exc /\ parsed.type = "client_hello" ->
                          _analyze_client_hello(flows, parsed.hello, packet.src, packet.dst,
                                                packet.dport)
                     [] ~ parsed.exc /\ parsed.type = "server_hello" ->
                          Returned(flows, _analyze_server_hello(parsed.hello, packet.src,
                                                                packet.dst))
                     [] ~ parsed.exc /\ parsed.type = "certificate" ->
                          Returned(flows, _analyze_certificate(flows, parsed.message,
                                                               packet.src, packet.dst,
                                                               packet.sport))
                     [] OTHER -> Returned(flows, << >>)),
            Returned(flows, << >>))

\* a call of EncryptedTrafficAnalyzer.analyze_packet
EncryptedTrafficAnalyzer_analyze_packet(packet) ==
  \E r \in {eta_analyze_packet(sessions, packet)} :
     /\ sessions' = r.st
     /\ threats' = r.threats
     /\ raised' = r.exc
     /\ npackets' = npackets + 1
     /\ last_call' = [decoder |-> "EncryptedTrafficAnalyzer", packet |-> packet]
     /\ UNCHANGED <<smb_sessions, ldap_sessions, smb_enum_tracker, ldap_query_tracker,
                    threat_count, last_packet, tls_result, now, nticks>>
     /\ ParserFrame

\* ------------------------------------------------ the records of the model
\* a number as 2 and as 3 bytes, big-endian
B2(n) == <<n \div 256, n % 256>>
B3(n) == <<0>> \o B2(n)

RECURSIVE Flatten(_)
Flatten(parts) == IF parts = << >> THEN << >> ELSE Head(parts) \o Flatten(Tail(parts))

\* a TLS 1.2 record with one handshake message
TlsRecord(handshake_type, body) ==
  <<CONTENT_TYPE_HANDSHAKE, 3, 3>> \o B2(Len(body) + 4) \o <<handshake_type>>
  \o B3(Len(body)) \o body
Extension(ext_type, ext_data) == B2(ext_type) \o B2(Len(ext_data)) \o ext_data
\* server_name: list length, type host_name, name length, name
SniExtension(name) ==
  Extension(EXT_SNI, B2(Len(name) + 3) \o <<0>> \o B2(Len(name)) \o name)
\* version, random, empty session id, cipher suites, null compression,
\* extensions
ClientHello(version, suites, extensions) ==
  TlsRecord(HANDSHAKE_CLIENT_HELLO,
            B2(version) \o Zeros(32) \o <<0>> \o B2(2 * Len(suites))
            \o Flatten([k \in 1..Len(suites) |-> B2(suites[k])]) \o <<1, 0>>
            \o B2(Len(extensions)) \o extensions)
ServerHello(version, suite, extensions) ==
  TlsRecord(HANDSHAKE_SERVER_HELLO,
            B2(version) \o Zeros(32) \o <<0>> \o B2(suite) \o <<0>>
            \o B2(Len(extensions)) \o extensions)
\* the parts of a DER certificate that the analyzer looks for: the commonName
\* attribute of the subject (OID 2.5.4.3 and a UTF8String), the public key
\* (128 bytes, here zeros) and the subjectAltName extension (OID 2.5.29.17
\* and an OCTET STRING holding a SEQUENCE of dNSName entries)
CertificateDer(cn, sans) ==
  LET names == Flatten([k \in 1..Len(sans) |-> <<130, Len(sans[k])>> \o sans[k]])
  IN (IF cn = << >> THEN << >> ELSE <<6, 3, 85, 4, 3, 12, Len(cn)>> \o cn)
     \o Zeros(128)
     \o (IF sans = << >> THEN << >>
         ELSE <<6, 3, 85, 29, 17, 4, Len(names) + 2, 48, Len(names)>> \o names)
\* a Certificate message with one certificate
Certificate(cn, sans) ==
  TlsRecord(HANDSHAKE_CERTIFICATE,
            B3(Len(CertificateDer(cn, sans)) + 3)
            \o B3(Len(CertificateDer(cn, sans))) \o CertificateDer(cn, sans))

\* a.io, w.a.io, c.io, *.a.io, x.fastly.net, fastly.net.b.io
Name_a == <<97, 46, 105, 111>>
Name_w_a == <<119, 46, 97, 46, 105, 111>>
Name_c == <<99, 46, 105, 111>>
Name_star_a == <<42, 46, 97, 46, 105, 111>>
Name_cdn == <<120, 46, 102, 97, 115, 116, 108, 121, 46, 110, 101, 116>>
Name_cdn_inside == <<102, 97, 115, 116, 108, 121, 46, 110, 101, 116, 46, 98, 46, 105, 111>>

\* what a Client Hello of the model offers: the cipher suites (weak only, weak
\* and strong, weak and a suite of neither table, GREASE and weak, strong
\* only, GREASE only) and the server name (none is the empty name)
OfferedSuites ==
  {<<4, 5>>, <<4, 5, 4865>>, <<4, 156>>, <<2570, 4>>, <<4865>>, <<2570>>}
OfferedNames == {<< >>, Name_a, Name_w_a, Name_cdn, Name_cdn_inside}
\* what a certificate of the model names: the subject CN and the SAN entries
CertifiedNames ==
  {<<Name_a, << >> >>, << << >>, <<Name_a>> >>, << << >>, <<Name_star_a>> >>,
   << << >>, <<Name_c>> >>, << << >>, << >> >>, <<Name_c, <<Name_c, Name_w_a>> >>}

\* the ports of the flows of the model
Ports == [client |-> 49152, server |-> 443, another |-> 8443]
\* the Client Hellos of the model: suites, server name, server port
OfferedHellos ==
  {<<suites, Name_a, Ports.server>> : suites \in OfferedSuites}
  \cup {<< <<4865>>, name, Ports.server>> : name \in OfferedNames}
  \cup {<< <<4865>>, Name_c, Ports.another>>}
ClientHelloPacket(hello) ==
  Packet("10.0.0.5", "10.0.0.9", Ports.client, hello[3],
         ClientHello(771, hello[1],
                     IF hello[2] = << >> THEN << >> ELSE SniExtension(hello[2])))
CertificatePacket(names) ==
  Packet("10.0.0.9", "10.0.0.5", Ports.server, Ports.client, Certificate(names[1], names[2]))

EtaPackets ==
  {ClientHelloPacket(hello) : hello \in OfferedHellos}
  \cup {CertificatePacket(names) : names \in CertifiedNames}

\* a few TLS records handed to a fresh analyzer
NextEta ==
  /\ npackets < MaxEtaPackets
  /\ \E packet \in EtaPackets : EncryptedTrafficAnalyzer_analyze_packet(packet)

SpecEta == ParserInit /\ [][NextEta]_vars

\* ------------------------------------------------------------------- C26
\* the events of a list that have the type t, in their order
Events(found, t) == SelectSeq(found, LAMBDA e : e.type = t)

\* the offered list, GREASE removed, is non-empty and all of it is in the weak
\* table
OnlyWeak(suites) ==
  LET offered == SelectSeq(suites, LAMBDA cs : cs \notin GREASE_VALUES)
  IN offered # << >> /\ \A cs \in Elements(offered) : cs \in WEAK_CIPHERS

\* C26: a Client Hello yields exactly one WEAK_CIPHERS_ONLY event, at MEDIUM,
\* if and only if its offered cipher list (GREASE removed) is non-empty and
\* holds suites of the weak table only; a suite outside the weak table in the
\* list means no WEAK_CIPHERS_ONLY event.
C26_WeakCiphersOnly ==
  [][\A hello \in OfferedHellos :
       EncryptedTrafficAnalyzer_analyze_packet(ClientHelloPacket(hello)) =>
         LET weak == Events(threats', "WEAK_CIPHERS_ONLY")
         IN IF OnlyWeak(hello[1])
              THEN Len(weak) = 1 /\ weak[1].severity = "MEDIUM"
              ELSE weak = << >>]_vars

\* the two cases of the specification's example: weak suites only yield the
\* event, a suite of the strong table suppresses it
WeakOnlyOrStrong ==
  [][\A hello \in OfferedHellos :
       EncryptedTrafficAnalyzer_analyze_packet(ClientHelloPacket(hello)) =>
         LET weak == Events(threats', "WEAK_CIPHERS_ONLY")
         IN /\ OnlyWeak(hello[1]) => Len(weak) = 1 /\ weak[1].severity = "MEDIUM"
            /\ Elements(hello[1]) \cap STRONG_CIPHERS # {} => weak = << >>]_vars

\* ------------------------------------------------------------------- C25
\* the flow of the model's Client Hellos to the server port, and the SNI the
\* analyzer recorded for it
ClientFlow == FlowKey("10.0.0.5", "10.0.0.9", Ports.server)
RecordedSni == IF ClientFlow \in DOMAIN sessions THEN sessions[ClientFlow] ELSE << >>

\* a name of the certificate matches h
Certified(names, h) ==
  \E n \in (IF names[1] = << >> THEN {} ELSE {names[1]}) \cup Elements(names[2]) :
    SniMatches(Lower(h), Lower(n))

\* h is a known CDN provider's domain or below it
CdnSuffix(h) ==
  \E cdn \in CDN_PROVIDERS : Lower(h) = cdn \/ EndsWith(Lower(h), <<46>> \o cdn)

\* C25: a Certificate message on the reverse flow of a Client Hello that
\* carried the SNI h yields exactly one DOMAIN_FRONTING_SUSPECTED event if no
\* subject CN or SAN of the certificates matches h (exact, suffix or
\* wildcard), at HIGH, or at MEDIUM when h is under a known CDN provider
\* suffix; with a matching name, or without a recorded SNI, it yields none.
C25_DomainFronting ==
  [][\A names \in CertifiedNames :
       EncryptedTrafficAnalyzer_analyze_packet(CertificatePacket(names)) =>
         LET fronting == Events(threats', "DOMAIN_FRONTING_SUSPECTED")
         IN IF RecordedSni # << >> /\ ~ Certified(names, RecordedSni)
              THEN /\ Len(fronting) = 1
                   /\ fronting[1].severity =
                        IF CdnSuffix(RecordedSni) THEN "MEDIUM" ELSE "HIGH"
              ELSE fronting = << >>]_vars

\* the claim for certificates that carry their names as SAN entries only, and
\* do carry one: the event and its absence are as claimed, the severity
\* aside
FrontingBySan ==
  [][\A names \in CertifiedNames :
       (EncryptedTrafficAnalyzer_analyze_packet(CertificatePacket(names))
        /\ names[1] = << >> /\ names[2] # << >>) =>
         LET fronting == Events(threats', "DOMAIN_FRONTING_SUSPECTED")
         IN IF RecordedSni # << >> /\ ~ Certified(names, RecordedSni)
              THEN Len(fronting) = 1
              ELSE fronting = << >>]_vars

\* the severity is MEDIUM exactly when a CDN provider's name occurs anywhere
\* in the SNI
SeverityBySubstring ==
  \A k \in 1..Len(threats) :
    threats[k].type = "DOMAIN_FRONTING_SUSPECTED" =>
      (threats[k].severity = "MEDIUM"
         <=> \E cdn \in CDN_PROVIDERS : Contains(Lower(threats[k].details.sni), cdn))
\* ===================================== the TLS analyzer (src/tls_analyzer.py)
RECURSIVE SniEntries(_, _)
\* the while loop of _parse_sni: the first host_name entry that fits, or None
SniEntries(data, offset) ==
  IF offset + 3 < Len(data)
    THEN LET name_len == U16BE(data, offset + 1)
         IN IF data[offset + 1] = 0 /\ offset + 3 + name_len <= Len(data)
              THEN Decode(Slice(data, offset + 3, offset + 3 + name_len))
              ELSE SniEntries(data, offset + 3 + name_len)
    ELSE << >>

\* _parse_sni; None is the empty name
_parse_sni(data) == IF Len(data) < 2 THEN << >> ELSE SniEntries(data, 2)

RECURSIVE AlpnEntries(_, _, _)
\* the while loop of _parse_alpn
AlpnEntries(data, offset, list_len) ==
  IF offset < 2 + list_len /\ offset < Len(data)
    THEN LET proto_len == data[offset + 1]
         IN (IF offset + 1 + proto_len <= Len(data)
               THEN << Decode(Slice(data, offset + 1, offset + 1 + proto_len)) >>
               ELSE << >>)
            \o AlpnEntries(data, offset + 1 + proto_len, list_len)
    ELSE << >>

\* _parse_alpn
_parse_alpn(data) == IF Len(data) < 2 THEN << >> ELSE AlpnEntries(data, 2, U16BE(data, 0))

\* the supported groups of a Client Hello: struct.unpack('>H', ext_data[i:i+2])
\* for i in range(2, min(2 + groups_len, len(ext_data)), 2), which raises
\* struct.error on a last slice of one byte
SupportedGroups(ext_data) ==
  LET last  == Least(2 + U16BE(ext_data, 0), Len(ext_data)) - 1
      steps == {i \in 2..last : i % 2 = 0}
  IN IF \E i \in steps : U16BE(ext_data, i) = Raise
       THEN [exc |-> TRUE, groups |-> << >>]
       ELSE [exc |-> FALSE,
             groups |-> SelectSeq([k \in 1..Cardinality(steps) |-> U16BE(ext_data, 2 * k)],
                                  LAMBDA group : group \notin GREASE_VALUES)]

\* the EC point formats: ext_data[i] for i in range(1, min(1 + formats_len,
\* len(ext_data)))
PointFormats(ext_data) ==
  [k \in 1..(Least(1 + ext_data[1], Len(ext_data)) - 1) |-> ext_data[k + 1]]

EXT_ALPN == 16

RECURSIVE TlsClientExtensions(_, _, _, _)
\* the while loop over the extensions of TLSAnalyzer._parse_client_hello
TlsClientExtensions(data, offset, ext_end, result) ==
  IF offset + 4 <= ext_end /\ offset + 4 <= Len(data)
    THEN LET ext_type == U16BE(data, offset)
             ext_len  == U16BE(data, offset + 2)
             ext_data == ExtData(data, offset + 4, ext_len)
             listed   == IF ext_type \in GREASE_VALUES THEN result
                         ELSE [result EXCEPT !.extensions = Append(@, ext_type)]
             next     ==
               CASE ext_type = EXT_SNI /\ Len(ext_data) >= 5 ->
                      [listed EXCEPT !.sni = _parse_sni(ext_data)]
                 [] ext_type = EXT_SUPPORTED_GROUPS /\ Len(ext_data) >= 2 ->
                      IF SupportedGroups(ext_data).exc
                        THEN [listed EXCEPT !.exc = TRUE]
                        ELSE [listed EXCEPT !.supported_groups =
                                               @ \o SupportedGroups(ext_data).groups]
                 [] ext_type = EXT_EC_POINT_FORMATS /\ Len(ext_data) >= 1 ->
                      [listed EXCEPT !.ec_point_formats = @ \o PointFormats(ext_data)]
                 [] ext_type = EXT_ALPN /\ Len(ext_data) >= 2 ->
                      [listed EXCEPT !.alpn = _parse_alpn(ext_data)]
                 [] OTHER -> listed
         IN IF next.exc THEN next
            ELSE TlsClientExtensions(data, offset + 4 + ext_len, ext_end, next)
    ELSE result

\* what the TLS analyzer's parsers return for None
NoHello == [none |-> TRUE, exc |-> FALSE]

\* TLSAnalyzer._parse_client_hello; the JA3 string and its MD5 digest are
\* functions of the lists kept here
_parse_client_hello(data) ==
  LET offset1 == 35 + data[35]
      cipher_suites_len == U16BE(data, offset1)
      offset2 == offset1 + 2 + cipher_suites_len
      offset3 == offset2 + 1 + data[offset2 + 1]
      hello   == [none |-> FALSE, exc |-> FALSE, handshake_type |-> "client_hello",
                  tls_version |-> U16BE(data, 0),
                  cipher_suites |-> Suites(data, offset1 + 2, cipher_suites_len),
                  extensions |-> << >>, supported_groups |-> << >>,
                  ec_point_formats |-> << >>, sni |-> << >>, alpn |-> << >>]
  IN IF Len(data) < HelloMinLen \/ offset1 + 2 > Len(data) \/ offset2 + 1 > Len(data)
       THEN NoHello
     ELSE IF offset3 + 2 <= Len(data)
       THEN TlsClientExtensions(data, offset3 + 2, offset3 + 2 + U16BE(data, offset3),
                                hello)
     ELSE hello

RECURSIVE ExtensionTypes(_, _, _)
\* the while loop over the extensions of TLSAnalyzer._parse_server_hello
ExtensionTypes(data, offset, ext_end) ==
  IF offset + 4 <= ext_end /\ offset + 4 <= Len(data)
    THEN (IF U16BE(data, offset) \in GREASE_VALUES THEN << >>
          ELSE << U16BE(data, offset) >>)
         \o ExtensionTypes(data, offset + 4 + U16BE(data, offset + 2), ext_end)
    ELSE << >>

\* TLSAnalyzer._parse_server_hello
_parse_server_hello(data) ==
  LET offset1 == 35 + data[35]
      offset2 == offset1 + 3
  IN IF Len(data) < HelloMinLen \/ offset1 + 2 > Len(data) THEN NoHello
     ELSE [none |-> FALSE, exc |-> FALSE, handshake_type |-> "server_hello",
           tls_version |-> U16BE(data, 0), cipher_suite |-> U16BE(data, offset1),
           extensions |-> IF offset2 + 2 <= Len(data)
                            THEN ExtensionTypes(data, offset2 + 2,
                                                offset2 + 2 + U16BE(data, offset2))
                            ELSE << >>]

RECURSIVE CertificateInfos(_, _, _, _)
\* the while loop of TLSAnalyzer._parse_certificate; _extract_cert_info
\* returns a dictionary on each of its paths, here the index and the length
CertificateInfos(data, offset, certs_len, cert_index) ==
  IF offset + 3 < 3 + certs_len /\ offset + 3 < Len(data)
    THEN LET cert_len == FromBytes(Slice(data, offset, offset + 3))
         IN IF offset + 3 + cert_len > Len(data) THEN << >>
            ELSE << [index |-> cert_index, raw_length |-> cert_len] >>
                 \o CertificateInfos(data, offset + 3 + cert_len, certs_len, cert_index + 1)
    ELSE << >>

\* TLSAnalyzer._parse_certificate
tls_parse_certificate(data) ==
  LET certs_len == FromBytes(Slice(data, 0, 3))
      infos     == CertificateInfos(data, 3, certs_len, 0)
  IN IF Len(data) < 3 THEN NoHello
     ELSE IF Len(data) < 3 + certs_len \/ infos = << >> THEN NoHello
     ELSE [none |-> FALSE, exc |-> FALSE, handshake_type |-> "certificate",
           certificates |-> infos]

\* TLSAnalyzer._parse_tls_record: None, or the addresses of the packet with
\* what the parser of the message found (nothing if that parser returned None)
_parse_tls_record(packet, data) ==
  LET record_length  == U16BE(data, 3)
      handshake_data == Slice(data, 5, 5 + record_length)
      body           == Slice(handshake_data, 4, Len(handshake_data))
      message        ==
        CASE handshake_data[1] = HANDSHAKE_CLIENT_HELLO -> _parse_client_hello(body)
          [] handshake_data[1] = HANDSHAKE_SERVER_HELLO -> _parse_server_hello(body)
          [] handshake_data[1] = HANDSHAKE_CERTIFICATE -> tls_parse_certificate(body)
          [] OTHER -> NoHello
      known          == handshake_data[1] \in {HANDSHAKE_CLIENT_HELLO, HANDSHAKE_SERVER_HELLO,
                                               HANDSHAKE_CERTIFICATE}
  IN IF Len(data) < 5 THEN [exc |-> FALSE, result |-> NoResult]
     ELSE IF data[1] # CONTENT_TYPE_HANDSHAKE \/ Len(data) < 5 + record_length
       THEN [exc |-> FALSE, result |-> NoResult]
     ELSE IF Len(handshake_data) < 4 \/ ~ known THEN [exc |-> FALSE, result |-> NoResult]
     ELSE IF message.exc THEN [exc |-> TRUE, result |-> NoResult]
     ELSE [exc |-> FALSE,
           result |-> [none |-> FALSE, src_ip |-> packet.src, dst_ip |-> packet.dst,
                       src_port |-> packet.sport, dst_port |-> packet.dport,
                       message |-> message]]

\* TLSAnalyzer.analyze_packet
tls_analyze_packet(packet) ==
  LET raw == packet.load
  IN IF raw = << >> THEN [exc |-> FALSE, result |-> NoResult]
     ELSE IF Len(raw) < 6 \/ raw[1] # CONTENT_TYPE_HANDSHAKE
       THEN [exc |-> FALSE, result |-> NoResult]
     ELSE try_except(_parse_tls_record(packet, raw), [exc |-> FALSE, result |-> NoResult])

\* a call of TLSAnalyzer.analyze_packet
TLSAnalyzer_analyze_packet(packet) ==
  \E r \in {tls_analyze_packet(packet)} :
     /\ tls_result' = r.result
     /\ raised' = r.exc
     /\ npackets' = npackets + 1
     /\ last_call' = [decoder |-> "TLSAnalyzer", packet |-> packet]
     /\ UNCHANGED <<smb_sessions, ldap_sessions, smb_enum_tracker, ldap_query_tracker,
                    threats, threat_count, last_packet, sessions, now, nticks>>
     /\ ParserFrame

\* ------------------------------------ well-formed and malformed payloads
\* a Client Hello with server name, supported versions, supported groups,
\* EC point formats and ALPN (h2); a TLS 1.0 Client Hello whose supported
\* groups end in half a group; a Server Hello with supported versions; a
\* Server Hello whose supported versions extension ends the payload after
\* its header; a Certificate message; an LDAP message whose length field
\* ends the payload before the message id
FullClientHello ==
  ClientHello(771, <<4, 5>>,
              SniExtension(Name_a) \o Extension(EXT_SUPPORTED_VERSIONS, <<2, 3, 3>>)
              \o Extension(EXT_SUPPORTED_GROUPS, <<0, 2, 0, 23>>)
              \o Extension(EXT_EC_POINT_FORMATS, <<1, 0>>)
              \o Extension(EXT_ALPN, <<0, 3, 2, 104, 50>>))
OddGroupsClientHello ==
  ClientHello(769, <<4, 5>>, Extension(EXT_SUPPORTED_GROUPS, <<0, 3, 0, 23, 0>>))
FullServerHello == ServerHello(771, 5, Extension(EXT_SUPPORTED_VERSIONS, <<3, 4>>))
CutServerHello == ServerHello(771, 5, B2(EXT_SUPPORTED_VERSIONS) \o B2(2))
CutLdapPayload == <<48, 136, 0, 0, 0, 0, 0, 0, 0, 1>>

\* every truncation of a payload, the empty one included
Prefixes(payload) == {SubSeq(payload, 1, n) : n \in 0..Len(payload)}
\* a truncated TLS record whose record length is that of what is left
Relength(payload) ==
  IF Len(payload) < 5 THEN payload
  ELSE SubSeq(payload, 1, 3) \o B2(Len(payload) - 5) \o SubSeq(payload, 6, Len(payload))

TlsPayloads ==
  LET whole == {FullClientHello, OddGroupsClientHello, FullServerHello, CutServerHello,
                Certificate(Name_a, <<Name_a>>)}
      cut   == UNION {Prefixes(payload) : payload \in whole}
  IN cut \cup {Relength(payload) : payload \in cut}
SmbPayloads ==
  UNION {Prefixes(payload) : payload \in {Smb2Payload(SMB2_QUERY_DIRECTORY), Smb1Payload}}
LdapPayloads ==
  UNION {Prefixes(payload) : payload \in {LdapBindPayload, LdapSearchPayload, CutLdapPayload}}

DecodePackets ==
  {Packet("10.0.0.5", "10.0.0.9", Ports.client, Ports.server, load) : load \in TlsPayloads}
  \cup {Packet("10.0.0.5", "10.0.0.9", Ports.client, 445, load) : load \in SmbPayloads}
  \cup {Packet("10.0.0.5", "10.0.0.9", Ports.client, 389, load) : load \in LdapPayloads}

\* each decoder is handed the payloads
ETA_Decode ==
  /\ npackets < MaxDecodes
  /\ \E packet \in DecodePackets : EncryptedTrafficAnalyzer_analyze_packet(packet)
Parser_Decode ==
  /\ npackets < MaxDecodes
  /\ \E packet \in DecodePackets : ProtocolParser_analyze_packet(packet)
TLS_Decode ==
  /\ npackets < MaxDecodes
  /\ \E packet \in DecodePackets : TLSAnalyzer_analyze_packet(packet)

NextDecode == ETA_Decode \/ Parser_Decode \/ TLS_Decode

SpecDecode == ParserInit /\ [][NextDecode]_vars

\* ------------------------------------------------------------------- C23
\* a name is text of the payload: the decoded bytes of one of its slices
InPayload(name, load) ==
  \E a \in 0..Len(load) : \E b \in a..Len(load) : Decode(Slice(load, a, b)) = name

\* the names that the result of the last call carries: the server names of
\* the Client Hello events, the names of the certificate events, and the
\* server name and the ALPN protocols of the TLS analyzer's result
EmittedNames ==
  CASE last_call.decoder = "EncryptedTrafficAnalyzer" ->
         UNION {CASE threats[k].type \in {"WEAK_CIPHERS_ONLY", "LEGACY_TLS_VERSION"} ->
                       {threats[k].details.sni}
                  [] threats[k].type = "SELF_SIGNED_CERTIFICATE" ->
                       {threats[k].details.subject_cn}
                       \cup Elements(threats[k].details.san_domains)
                  [] OTHER -> {} : k \in 1..Len(threats)}
    [] last_call.decoder = "TLSAnalyzer" ->
         IF ~ tls_result.none /\ ~ tls_result.message.none
            /\ tls_result.message.handshake_type = "client_hello"
           THEN {tls_result.message.sni} \cup Elements(tls_result.message.alpn)
           ELSE {}
    [] OTHER -> {}

====
